---- MODULE Spec2Model ----
(***************************************************************************)
(* Code & Brew: the browser-side persistence layer (favorites, inquiries,  *)
(* session), the contact and registration form controllers and the         *)
(* favorites dashboard, as state machines.                                 *)
(*                                                                         *)
(* Text typed by the user is a sequence of one-character strings, so that  *)
(* trimming, length checks and pattern tests are computed, not assumed.    *)
(* A storage slot holds a text: nothing (getItem returns null), text that  *)
(* does not parse as JSON, or the JSON text of a value.                    *)
(***************************************************************************)
EXTENDS Integers, Sequences, FiniteSets, TLC

\* ------------------------------------------------------------------ bounds
\* Number of favorite records the model lets the collection grow to.
MaxFavs == 3
\* Last millisecond the model's clock reaches (Date.now() starts at 1).
MaxClock == 2
\* Number of inquiries the model lets the collection grow to.
MaxInq == 2
\* Number of repository calls each tab makes.
MaxTabCalls == 2

\* --------------------------------------------------------------- constants
SESSION_KEY == "currentUser"
FAVORITES_KEY == "favoriteDrinks"
STORAGE_KEY == "codeBrewInquiries"
LocalKeys == {FAVORITES_KEY, STORAGE_KEY}

VARIABLES
    page,           \* the page this tab shows: "welcome", "contact", "account", "left"
    clock,          \* Date.now(), in milliseconds
    localStore,     \* localStorage: key -> stored text
    sessionStore,   \* sessionStorage under SESSION_KEY: stored text
    obs,            \* the last call or event: arguments, result, effect
    inflight,       \* tab -> the repository call it is in, between load and save
    location,       \* the URL assigned to window.location.href ("" for none)
    \* contact form (index.html)
    cfValue,        \* field -> the text in the field
    cfClass,        \* field -> "none" | "valid" | "invalid" (its CSS marker)
    cfError,        \* field -> the text of its error span
    feedback,       \* the feedback banner: type and message
    submitBtn,      \* the submit button: disabled, text
    latencyTimers,  \* pending 800 ms callbacks, each holding its formData
    hideTimers,     \* number of pending 8 s callbacks that hide the banner
    accepted,       \* number of submissions that passed validation (history)
    pc,             \* index of the next statement of a running 800 ms callback (0: none runs)
    \* registration form (account page)
    rfValue,        \* field -> the text in the field
    rfTerms,        \* the terms checkbox is checked
    rfMark,         \* field -> "none" | "valid" | "invalid"
    rfMsg,          \* field -> the text of its invalid-feedback element
    termsInvalid,   \* the terms checkbox carries is-invalid
    strength,       \* the class on the strength bar ("none" for no class)
    \* favorites dashboard (welcome page)
    ready,          \* init() has run
    modal,          \* the open modal: "none" | "add" | "edit"
    editDrinkId,    \* the value of #editDrinkId, parsed (-1 for NaN)
    toast,          \* the toast shown last: type and message
    cards,          \* the drink cards in the grid, in order
    emptyShown,     \* the empty-state element is visible
    welcomeUsername, \* the text of #welcomeUsername
    \* blog section (index.html)
    ARTICLES,       \* the in-memory article data store
    activeCategory, \* the active category filter
    visibleCount,   \* number of articles currently visible
    blogGrid,       \* the cards in #blogGrid, in order: article id, expanded
    blogEmptyHidden, \* #blogEmpty carries the hidden attribute
    loadMoreShown,  \* #blogLoadMore is displayed
    filterPressed,  \* the category of the filter button that is active
    \* mobile navigation (script.js)
    initFirst,      \* init() attached its listeners before the top-level code
    ariaExpanded,   \* the hamburger's aria-expanded is "true"
    hamburgerActive, \* the hamburger carries the class active
    navMenuActive,  \* the nav menu carries the class active
    overlayActive,  \* the overlay carries the class active
    spansCrossed    \* the hamburger's bars are drawn as a cross

storeVars == <<localStore, sessionStore>>
contactVars ==
    <<cfValue, cfClass, cfError, feedback, submitBtn, latencyTimers, hideTimers,
      accepted, pc>>
accountVars == <<rfValue, rfTerms, rfMark, rfMsg, termsInvalid, strength>>
welcomeVars ==
    <<ready, modal, editDrinkId, toast, cards, emptyShown, welcomeUsername>>
blogVars ==
    <<ARTICLES, activeCategory, visibleCount, blogGrid, blogEmptyHidden,
      loadMoreShown, filterPressed>>
navVars ==
    <<initFirst, ariaExpanded, hamburgerActive, navMenuActive, overlayActive,
      spansCrossed>>
uiVars == <<location, contactVars, accountVars, welcomeVars, blogVars, navVars>>
vars == <<page, clock, localStore, sessionStore, obs, inflight, uiVars>>

\* ------------------------------------------------------------ JS values
\* A JavaScript value as JSON.parse can return it for a collection key: an
\* array of records, null, or some other non-array value (an object, a number).
JsArray(items) == [t |-> "array", v |-> items]
JsNull == [t |-> "null", v |-> <<>>]
JsObject == [t |-> "object", v |-> <<>>]

\* A stored text: no entry, unparseable text, or the JSON text of a value.
NoText == [kind |-> "absent", json |-> JsNull]
CorruptText == [kind |-> "corrupt", json |-> JsNull]
JsonText(val) == [kind |-> "json", json |-> val]

\* JSON.stringify(value): the JSON text of the value.
JSONstringify(val) == JsonText(val)

\* JSON.parse(text): throws a SyntaxError on text that is not JSON.
JSONparse(text) ==
    IF text.kind = "json"
    THEN [threw |-> FALSE, val |-> text.json]
    ELSE [threw |-> TRUE, val |-> JsNull]

\* The storage area as a call finds it: working, full (setItem throws
\* QuotaExceededError) or disabled (every access throws SecurityError).
StoreModes == {"ok", "full", "disabled"}

\* localStorage.getItem(key)
getItem(mode, store, key) ==
    IF mode = "disabled"
    THEN [threw |-> TRUE, raw |-> NoText]
    ELSE [threw |-> FALSE, raw |-> store[key]]

\* localStorage.setItem(key, text)
setItem(mode, store, key, text) ==
    IF mode = "ok"
    THEN [threw |-> FALSE, store |-> [store EXCEPT ![key] = text]]
    ELSE [threw |-> TRUE, store |-> store]

\* The body of the try block of loadFavorites / loadSubmissions:
\*   raw = getItem(key); return raw ? JSON.parse(raw) : [];
TryRead(mode, store, key) ==
    LET g == getItem(mode, store, key) IN
    IF g.threw THEN [threw |-> TRUE, val |-> JsNull]
    ELSE IF g.raw.kind = "absent" THEN [threw |-> FALSE, val |-> JsArray(<<>>)]
    ELSE JSONparse(g.raw)

\* loadFavorites without its catch clause: the exception escapes.
loadFavoritesNoCatch(mode, store) == TryRead(mode, store, FAVORITES_KEY)

\* loadFavorites(): every exception is caught and [] returned.
loadFavorites(mode, store) ==
    LET r == TryRead(mode, store, FAVORITES_KEY) IN
    IF r.threw THEN [threw |-> FALSE, val |-> JsArray(<<>>)] ELSE r

\* saveFavorites(favorites): the exception of setItem is caught and logged.
\* wrote: setItem was called; writeThrew: it threw.
saveFavorites(mode, store, favorites) ==
    LET w == setItem(mode, store, FAVORITES_KEY, JSONstringify(favorites)) IN
    [store |-> w.store, threw |-> FALSE, wrote |-> TRUE, writeThrew |-> w.threw]

\* ------------------------------------------------- favorites repository
\* A field the caller left out (undefined).
Undefined == <<"<undefined>">>

\* value || "": undefined and the empty string both give "".
OrEmpty(v) == IF v = Undefined \/ v = <<>> THEN <<>> ELSE v

\* new Date().toISOString() at millisecond `now`.
toISOString(now) == <<"iso", now>>

\* The result of a repository call: the store after it, whether an exception
\* escaped, the returned value (a sequence of zero or one value; empty for
\* null or when it threw), whether setItem was called and whether it threw.
Result(store, threw, ret, wrote, writeThrew) ==
    [store |-> store, threw |-> threw, ret |-> ret, wrote |-> wrote,
     writeThrew |-> writeThrew]

\* The object literal of addFavorite.
NewDrink(now, drink) ==
    [id |-> now, name |-> drink.name, size |-> drink.size,
     customization |-> OrEmpty(drink.customization),
     notes |-> OrEmpty(drink.notes), addedAt |-> toISOString(now)]

\* addFavorite(drink): favorites.push throws a TypeError when loadFavorites
\* returned a value that is no array.
addFavorite(mode, store, now, drink) ==
    LET l == loadFavorites(mode, store) IN
    IF l.threw \/ l.val.t # "array"
    THEN Result(store, TRUE, <<>>, FALSE, FALSE)
    ELSE LET newDrink == NewDrink(now, drink)
             s == saveFavorites(mode, store, JsArray(Append(l.val.v, newDrink)))
         IN Result(s.store, s.threw, <<newDrink>>, s.wrote, s.writeThrew)

\* The index at which the loop `for (i = 0; ...) if (favorites[i].id === id)`
\* first matches; 0 when it runs to the end.
FirstIndex(items, id) ==
    IF \E i \in 1..Len(items) : items[i].id = id
    THEN CHOOSE i \in 1..Len(items) :
            /\ items[i].id = id
            /\ \A j \in 1..(i - 1) : items[j].id # id
    ELSE 0

\* The four assignments of updateFavorite to favorites[i].
Updated(rec, updates) ==
    [rec EXCEPT !.name = updates.name, !.size = updates.size,
                !.customization = OrEmpty(updates.customization),
                !.notes = OrEmpty(updates.notes)]

\* updateFavorite without the `break`: every record with the id is rewritten.
updateFavoriteAll(mode, store, id, updates) ==
    LET l == loadFavorites(mode, store) IN
    IF l.threw \/ l.val.t = "null"
    THEN Result(store, TRUE, <<>>, FALSE, FALSE)
    ELSE IF l.val.t # "array" \/ FirstIndex(l.val.v, id) = 0
    THEN Result(store, FALSE, <<FALSE>>, FALSE, FALSE)
    ELSE LET items == [i \in 1..Len(l.val.v) |->
                         IF l.val.v[i].id = id THEN Updated(l.val.v[i], updates)
                         ELSE l.val.v[i]]
             s == saveFavorites(mode, store, JsArray(items))
         IN Result(s.store, s.threw, <<TRUE>>, s.wrote, s.writeThrew)

\* updateFavorite(id, updates): reading .length of null throws; .length of
\* another non-array value is undefined and the loop does not run.
updateFavorite(mode, store, id, updates) ==
    LET l == loadFavorites(mode, store) IN
    IF l.threw \/ l.val.t = "null"
    THEN Result(store, TRUE, <<>>, FALSE, FALSE)
    ELSE IF l.val.t # "array" \/ FirstIndex(l.val.v, id) = 0
    THEN Result(store, FALSE, <<FALSE>>, FALSE, FALSE)
    ELSE LET i == FirstIndex(l.val.v, id)
             items == [l.val.v EXCEPT ![i] = Updated(l.val.v[i], updates)]
             s == saveFavorites(mode, store, JsArray(items))
         IN Result(s.store, s.threw, <<TRUE>>, s.wrote, s.writeThrew)

\* deleteFavorite that saves unconditionally, also when nothing was removed.
deleteFavoriteAlwaysSave(mode, store, id) ==
    LET l == loadFavorites(mode, store) IN
    IF l.threw \/ l.val.t = "null"
    THEN Result(store, TRUE, <<>>, FALSE, FALSE)
    ELSE IF l.val.t # "array"
    THEN Result(store, FALSE, <<FALSE>>, FALSE, FALSE)
    ELSE LET next == SelectSeq(l.val.v, LAMBDA r : r.id # id)
             deleted == Len(next) < Len(l.val.v)
             s == saveFavorites(mode, store, JsArray(next))
         IN Result(s.store, s.threw, <<deleted>>, s.wrote, s.writeThrew)

\* deleteFavorite(id): keeps every record whose id differs, saves when the
\* result is shorter.
deleteFavorite(mode, store, id) ==
    LET l == loadFavorites(mode, store) IN
    IF l.threw \/ l.val.t = "null"
    THEN Result(store, TRUE, <<>>, FALSE, FALSE)
    ELSE IF l.val.t # "array"
    THEN Result(store, FALSE, <<FALSE>>, FALSE, FALSE)
    ELSE LET next == SelectSeq(l.val.v, LAMBDA r : r.id # id)
             deleted == Len(next) < Len(l.val.v)
         IN IF deleted
            THEN LET s == saveFavorites(mode, store, JsArray(next))
                 IN Result(s.store, s.threw, <<TRUE>>, s.wrote, s.writeThrew)
            ELSE Result(store, FALSE, <<FALSE>>, FALSE, FALSE)

\* findFavorite(id): the first record with the id, or null.
findFavorite(mode, store, id) ==
    LET l == loadFavorites(mode, store) IN
    IF l.threw \/ l.val.t = "null"
    THEN Result(store, TRUE, <<>>, FALSE, FALSE)
    ELSE IF l.val.t # "array" \/ FirstIndex(l.val.v, id) = 0
    THEN Result(store, FALSE, <<>>, FALSE, FALSE)
    ELSE Result(store, FALSE, <<l.val.v[FirstIndex(l.val.v, id)]>>, FALSE, FALSE)

\* ------------------------------------------------- inquiries repository
\* loadSubmissions without its catch clause.
loadSubmissionsNoCatch(mode, store) == TryRead(mode, store, STORAGE_KEY)

\* loadSubmissions(): every exception is caught and [] returned.
loadSubmissions(mode, store) ==
    LET r == TryRead(mode, store, STORAGE_KEY) IN
    IF r.threw THEN [threw |-> FALSE, val |-> JsArray(<<>>)] ELSE r

\* saveSubmission that writes only the new record, not the loaded list.
saveSubmissionOnlyNew(mode, store, formData) ==
    LET w == setItem(mode, store, STORAGE_KEY, JSONstringify(JsArray(<<formData>>)))
    IN Result(w.store, FALSE, <<>>, TRUE, w.threw)

\* saveSubmission without the try/catch around setItem.
saveSubmissionNoCatch(mode, store, formData) ==
    LET l == loadSubmissions(mode, store) IN
    IF l.threw \/ l.val.t # "array"
    THEN Result(store, TRUE, <<>>, FALSE, FALSE)
    ELSE LET w == setItem(mode, store, STORAGE_KEY,
                          JSONstringify(JsArray(Append(l.val.v, formData))))
         IN Result(w.store, w.threw, <<>>, TRUE, w.threw)

\* saveSubmission(formData): push onto the loaded list (a TypeError when it
\* is no array), then setItem inside try/catch.
saveSubmission(mode, store, formData) ==
    LET l == loadSubmissions(mode, store) IN
    IF l.threw \/ l.val.t # "array"
    THEN Result(store, TRUE, <<>>, FALSE, FALSE)
    ELSE LET w == setItem(mode, store, STORAGE_KEY,
                          JSONstringify(JsArray(Append(l.val.v, formData))))
         IN Result(w.store, FALSE, <<>>, TRUE, w.threw)

\* ------------------------------------------------------------- session
\* A stored session text: absent, unparseable, or the JSON of a user object.
NoUser == [username |-> <<>>, email |-> <<>>]
NoSession == [kind |-> "absent", user |-> NoUser]
CorruptSession == [kind |-> "corrupt", user |-> NoUser]
SessionText(user) == [kind |-> "json", user |-> user]

\* The body of the try block of getCurrentUser:
\*   raw = sessionStorage.getItem(key); return raw ? JSON.parse(raw) : null;
TrySession(mode, session) ==
    IF mode = "disabled" \/ session.kind = "corrupt"
    THEN [threw |-> TRUE, user |-> <<>>]
    ELSE IF session.kind = "absent" THEN [threw |-> FALSE, user |-> <<>>]
    ELSE [threw |-> FALSE, user |-> <<session.user>>]

\* getCurrentUser without its catch clause.
getCurrentUserNoCatch(mode, session) == TrySession(mode, session)

\* getCurrentUser(): the parsed session object, or null (the empty sequence)
\* when the key is missing or reading or parsing throws.
getCurrentUser(mode, session) ==
    LET r == TrySession(mode, session) IN
    IF r.threw THEN [threw |-> FALSE, user |-> <<>>] ELSE r

\* ------------------------------------------------------ input domains
\* Drinks passed to addFavorite / updateFavorite: every field takes two
\* values, the optional ones are left out in the first.
Drink1 ==
    [name |-> <<"L">>, size |-> "Medium", customization |-> Undefined,
     notes |-> Undefined]
Drink2 ==
    [name |-> <<"M">>, size |-> "Large", customization |-> <<"o">>,
     notes |-> <<"n">>]
DrinkArgs == {Drink1, Drink2}

\* Ids passed to update / delete / find: every clock value, and 0, which no
\* record has.
IdArgs == 0..MaxClock

\* Inquiries passed to saveSubmission.
Inquiry(subject, now) ==
    [name |-> <<"A", "l">>, email |-> <<"a", "@", "b", ".", "c">>,
     subject |-> subject, message |-> <<"H", "e", "l", "l", "o">>,
     submittedAt |-> toISOString(now)]
SubjectArgs == {<<"H", "i">>, <<"(No subject)">>}

\* Texts a storage slot can hold when the page loads: nothing, text that is
\* not JSON, and JSON that is no array.
InitTexts == {NoText, CorruptText, JsonText(JsNull), JsonText(JsObject)}
InitSessions ==
    {NoSession, CorruptSession,
     SessionText([username |-> <<"b", "o", "b">>, email |-> <<"a", "@", "b", ".", "c">>])}

EmptyStore == [k \in LocalKeys |-> NoText]

\* The records a slot holds, as a reader of a working store gets them:
\* the array's items, the empty sequence for anything else.
Items(text) ==
    IF text.kind = "json" /\ text.json.t = "array" THEN text.json.v ELSE <<>>

\* The slot holds a collection: nothing yet, or the JSON of an array.
IsCollection(text) ==
    text.kind = "absent" \/ (text.kind = "json" /\ text.json.t = "array")

\* ------------------------------------------------ pages as authored
\* The contact form before anything is typed, and after form.reset().
ContactFields == {"name", "email", "subject", "message"}
RequiredFields == {"name", "email", "message"}
PristineValues == [f \in ContactFields |-> <<>>]
NoFeedback == [type |-> "none", text |-> "", name |-> <<>>]
SendButton == [disabled |-> FALSE, text |-> "Send Message"]

ContactPristine ==
    /\ cfValue = PristineValues
    /\ cfClass = [f \in ContactFields |-> "none"]
    /\ cfError = [f \in RequiredFields |-> ""]
    /\ feedback = NoFeedback
    /\ submitBtn = SendButton
    /\ latencyTimers = <<>>
    /\ hideTimers = 0
    /\ accepted = 0
    /\ pc = 0

\* The registration form before anything is typed.
AccountFields == {"username", "email", "password", "confirmPassword"}

AccountPristine ==
    /\ rfValue = [f \in AccountFields |-> <<>>]
    /\ rfTerms = FALSE
    /\ rfMark = [f \in AccountFields |-> "none"]
    /\ rfMsg = [f \in AccountFields |-> ""]
    /\ termsInvalid = FALSE
    /\ strength = [level |-> "none", met |-> {}]

\* The favorites dashboard before init() has run.
NoToast == [type |-> "none", text |-> "", name |-> <<>>]

WelcomePristine ==
    /\ ready = FALSE
    /\ modal = "none"
    /\ editDrinkId = -1
    /\ toast = NoToast
    /\ cards = <<>>
    /\ emptyShown = TRUE
    /\ welcomeUsername = <<>>

\* --------------------------------------------------------- blog section
\* Number of articles to show per page.
ARTICLES_PER_PAGE == 3

\* The article data store as the script defines it: id and category of each
\* article, in dataset order.
ArticleData ==
    <<[id |-> 1, category |-> "brewing-tips"],
      [id |-> 2, category |-> "customer-stories"],
      [id |-> 3, category |-> "coffee-culture"],
      [id |-> 4, category |-> "brewing-tips"],
      [id |-> 5, category |-> "customer-stories"],
      [id |-> 6, category |-> "coffee-culture"]>>

\* The blog section as the script and the markup leave it before initBlog.
BlogPristine ==
    /\ ARTICLES = ArticleData
    /\ activeCategory = "all"
    /\ visibleCount = ARTICLES_PER_PAGE
    /\ blogGrid = <<>>
    /\ blogEmptyHidden = TRUE
    /\ loadMoreShown = TRUE
    /\ filterPressed = "all"

\* The navigation before any click: menu closed.
NavPristine ==
    /\ initFirst = FALSE
    /\ ariaExpanded = FALSE
    /\ hamburgerActive = FALSE
    /\ navMenuActive = FALSE
    /\ overlayActive = FALSE
    /\ spansCrossed = FALSE

\* ------------------------------------------------------ repository calls
NoDrink == [name |-> <<>>, size |-> "", customization |-> <<>>, notes |-> <<>>]

\* What a call leaves in obs.
Obs(op, mode, id, arg, pre, r) ==
    [op |-> op, mode |-> mode, id |-> id, arg |-> arg, pre |-> pre,
     ret |-> r.ret, threw |-> r.threw, wrote |-> r.wrote,
     writeThrew |-> r.writeThrew]
NoObs ==
    [op |-> "none", mode |-> "ok", id |-> 0, arg |-> NoDrink, pre |-> NoText,
     ret |-> <<>>, threw |-> FALSE, wrote |-> FALSE, writeThrew |-> FALSE]

\* The tabs open on the origin, none of them inside a repository call.
Tabs == {1, 2}
NoCall ==
    [at |-> "idle", kind |-> "none", mode |-> "ok", id |-> 0, arg |-> NoDrink,
     now |-> 0, loaded |-> NoText, stale |-> FALSE, calls |-> 0]
NoInflight == [t \in Tabs |-> NoCall]

\* Time passes on the favorites page: Date.now() moves to the next
\* millisecond. (On the contact page time passes when a timer fires.)
Tick ==
    /\ clock < MaxClock
    /\ clock' = clock + 1
    /\ page = "welcome"
    /\ UNCHANGED <<page, inflight, blogVars, navVars, localStore, sessionStore, obs, uiVars>>

CallAddFavorite ==
    /\ page = "welcome"
    /\ Len(Items(localStore[FAVORITES_KEY])) < MaxFavs
    /\ \E mode \in StoreModes, drink \in DrinkArgs :
         LET r == addFavorite(mode, localStore, clock, drink) IN
         /\ localStore' = r.store
         /\ obs' = Obs("add", mode, 0, drink, localStore[FAVORITES_KEY], r)
    /\ UNCHANGED <<page, inflight, blogVars, navVars, clock, sessionStore, uiVars>>

CallUpdateFavorite ==
    /\ page = "welcome"
    /\ \E mode \in StoreModes, id \in IdArgs, updates \in DrinkArgs :
         LET r == updateFavorite(mode, localStore, id, updates) IN
         /\ localStore' = r.store
         /\ obs' = Obs("update", mode, id, updates, localStore[FAVORITES_KEY], r)
    /\ UNCHANGED <<page, inflight, blogVars, navVars, clock, sessionStore, uiVars>>

CallDeleteFavorite ==
    /\ page = "welcome"
    /\ \E mode \in StoreModes, id \in IdArgs :
         LET r == deleteFavorite(mode, localStore, id) IN
         /\ localStore' = r.store
         /\ obs' = Obs("delete", mode, id, NoDrink, localStore[FAVORITES_KEY], r)
    /\ UNCHANGED <<page, inflight, blogVars, navVars, clock, sessionStore, uiVars>>

CallFindFavorite ==
    /\ page = "welcome"
    /\ \E mode \in StoreModes, id \in IdArgs :
         LET r == findFavorite(mode, localStore, id) IN
         /\ localStore' = r.store
         /\ obs' = Obs("find", mode, id, NoDrink, localStore[FAVORITES_KEY], r)
    /\ UNCHANGED <<page, inflight, blogVars, navVars, clock, sessionStore, uiVars>>

CallLoadFavorites ==
    /\ page = "welcome"
    /\ \E mode \in StoreModes :
         LET l == loadFavorites(mode, localStore) IN
         obs' = Obs("loadFavorites", mode, 0, NoDrink, localStore[FAVORITES_KEY],
                    Result(localStore, l.threw, <<l.val>>, FALSE, FALSE))
    /\ UNCHANGED <<page, inflight, blogVars, navVars, clock, localStore, sessionStore, uiVars>>

CallGetCurrentUser ==
    /\ page = "welcome"
    /\ \E mode \in StoreModes :
         LET g == getCurrentUser(mode, sessionStore) IN
         obs' = Obs("getCurrentUser", mode, 0, NoDrink, localStore[FAVORITES_KEY],
                    Result(localStore, g.threw, g.user, FALSE, FALSE))
    /\ UNCHANGED <<page, inflight, blogVars, navVars, clock, localStore, sessionStore, uiVars>>

CallSaveSubmission ==
    /\ page = "contact"
    /\ Len(Items(localStore[STORAGE_KEY])) < MaxInq
    \* the record is stamped at its own submit event, later than every
    \* earlier one: accepted submit events are a latency apart
    /\ \A i \in 1..Len(Items(localStore[STORAGE_KEY])) :
         Items(localStore[STORAGE_KEY])[i].submittedAt # toISOString(clock)
    /\ \E mode \in StoreModes, subject \in SubjectArgs :
         LET r == saveSubmission(mode, localStore, Inquiry(subject, clock)) IN
         /\ localStore' = r.store
         /\ obs' = Obs("saveSubmission", mode, 0, NoDrink, localStore[STORAGE_KEY],
                       [r EXCEPT !.ret = <<Inquiry(subject, clock)>>])
    /\ UNCHANGED <<page, inflight, blogVars, navVars, clock, sessionStore, uiVars>>

CallLoadSubmissions ==
    /\ page = "contact"
    /\ \E mode \in StoreModes :
         LET l == loadSubmissions(mode, localStore) IN
         obs' = Obs("loadSubmissions", mode, 0, NoDrink, localStore[STORAGE_KEY],
                    Result(localStore, l.threw, <<l.val>>, FALSE, FALSE))
    /\ UNCHANGED <<page, inflight, blogVars, navVars, clock, localStore, sessionStore, uiVars>>

\* The repository functions called directly, with any argument.
InitRepo ==
    /\ clock = 1
    /\ obs = NoObs
    /\ inflight = NoInflight
    /\ BlogPristine
    /\ NavPristine
    /\ location = ""
    /\ ContactPristine
    /\ AccountPristine
    /\ WelcomePristine
    /\ \/ /\ page = "welcome"
          /\ \E t \in InitTexts : localStore = [EmptyStore EXCEPT ![FAVORITES_KEY] = t]
          /\ sessionStore \in InitSessions
       \/ /\ page = "contact"
          /\ \E t \in InitTexts : localStore = [EmptyStore EXCEPT ![STORAGE_KEY] = t]
          /\ sessionStore = NoSession

NextRepo ==
    \/ Tick
    \/ CallAddFavorite
    \/ CallUpdateFavorite
    \/ CallDeleteFavorite
    \/ CallFindFavorite
    \/ CallLoadFavorites
    \/ CallGetCurrentUser
    \/ CallSaveSubmission
    \/ CallLoadSubmissions

SpecRepo == InitRepo /\ [][NextRepo]_vars

\* =================================================================
\* Claims about the repository (checked under SpecRepo)
\* =================================================================
Favs == Items(localStore[FAVORITES_KEY])
Inqs == Items(localStore[STORAGE_KEY])

\* The slot reads as a collection: it is not the JSON of a non-array value.
ReadsAsCollection(text) == text.kind # "json" \/ text.json.t = "array"

\* seq without its element at index i.
RemoveAt(seq, i) ==
    [j \in 1..(Len(seq) - 1) |-> IF j < i THEN seq[j] ELSE seq[j + 1]]

\* How many elements of seq equal x.
Count(seq, x) == Cardinality({i \in 1..Len(seq) : seq[i] = x})

\* C1: after any sequence of addFavorite, updateFavorite and deleteFavorite
\* calls no two records of the persisted favoriteDrinks collection have the
\* same id, also when two adds fall in the same millisecond.
C1_UniqueIds ==
    \A i, j \in 1..Len(Favs) : i # j => Favs[i].id # Favs[j].id

\* C2: with a working store, addFavorite(drink) followed by
\* deleteFavorite(the id that add returned) leaves the collection as it was
\* before the add: the same length, the same records.
C2_AddThenDeleteRestores ==
    [][(/\ obs.op = "add" /\ obs.mode = "ok" /\ ~obs.threw
        /\ obs'.op = "delete" /\ obs'.mode = "ok"
        /\ obs'.id = obs.ret[1].id)
       => /\ Len(Favs') = Len(Items(obs.pre))
          /\ Favs' = Items(obs.pre)]_vars

\* C3: with a working store, deleteFavorite(id) on a collection that holds
\* the id removes exactly the first record with that id, keeps the others in
\* order, persists the result and returns true.
C3_DeleteRemovesFirstMatch ==
    (/\ obs.op = "delete" /\ obs.mode = "ok"
     /\ FirstIndex(Items(obs.pre), obs.id) # 0)
    => /\ ~obs.threw
       /\ obs.ret = <<TRUE>>
       /\ Favs = RemoveAt(Items(obs.pre), FirstIndex(Items(obs.pre), obs.id))

\* C4: when the store write succeeds, appending record x (addFavorite,
\* saveSubmission) to the persisted collection C leaves C followed by x
\* persisted, and a read then contains x exactly once.
C4_AppendRoundTrip ==
    (/\ obs.op \in {"add", "saveSubmission"}
     /\ obs.wrote /\ ~obs.writeThrew)
    => LET now == IF obs.op = "add" THEN Favs ELSE Inqs
           x == obs.ret[1]
       IN /\ now = Append(Items(obs.pre), x)
          /\ Count(now, x) = 1

C6_UpdateAlwaysPersists ==
    (/\ obs.op = "update"
     /\ FirstIndex(Items(obs.pre), obs.id) # 0)
    => LET i == FirstIndex(Items(obs.pre), obs.id) IN
       /\ obs.ret = <<TRUE>>
       /\ Favs = [Items(obs.pre) EXCEPT ![i] = Updated(Items(obs.pre)[i], obs.arg)]

\* C6, amended: on a collection that holds the id, with a working store
\* updateFavorite replaces name, size, customization ("" by default) and
\* notes ("" by default) of the first record with the id only, leaves its id,
\* addedAt and position, the length and every other record alone, persists
\* the whole collection and returns true. When setItem throws it returns true
\* and the slot keeps its text; when the store cannot be read it returns
\* false and the slot keeps its text.
C6_UpdateFrame ==
    (/\ obs.op = "update"
     /\ FirstIndex(Items(obs.pre), obs.id) # 0)
    => LET old == Items(obs.pre)
           i == FirstIndex(old, obs.id)
       IN /\ ~obs.threw
          /\ obs.mode = "ok" =>
               /\ obs.ret = <<TRUE>> /\ obs.wrote /\ ~obs.writeThrew
               /\ Len(Favs) = Len(old)
               /\ \A j \in 1..Len(old) : j # i => Favs[j] = old[j]
               /\ Favs[i].id = old[i].id
               /\ Favs[i].addedAt = old[i].addedAt
               /\ Favs[i].name = obs.arg.name
               /\ Favs[i].size = obs.arg.size
               /\ Favs[i].customization = OrEmpty(obs.arg.customization)
               /\ Favs[i].notes = OrEmpty(obs.arg.notes)
               /\ Favs[i].customization # Undefined
               /\ Favs[i].notes # Undefined
          /\ obs.mode = "full" =>
               /\ obs.ret = <<TRUE>> /\ obs.writeThrew
               /\ localStore[FAVORITES_KEY] = obs.pre
          /\ obs.mode = "disabled" =>
               /\ obs.ret = <<FALSE>> /\ ~obs.wrote
               /\ localStore[FAVORITES_KEY] = obs.pre

\* The case of C6: an update that changed the first of two records with the
\* same id, in a collection of three, and left the fields out that default.
C6_Witness ==
    /\ obs.op = "update" /\ obs.mode = "ok"
    /\ Len(Items(obs.pre)) = 3
    /\ FirstIndex(Items(obs.pre), obs.id) = 2
    /\ Items(obs.pre)[3].id = obs.id
    /\ obs.arg.notes = Undefined
    /\ Favs # Items(obs.pre)
    /\ Favs[3] = Items(obs.pre)[3]

\* C7: loadFavorites, loadSubmissions and getCurrentUser never throw; when
\* the key is missing, the text is not JSON or the store access throws they
\* return the empty array (getCurrentUser: null).
C7_ReadsNeverThrow ==
    /\ obs.op \in {"loadFavorites", "loadSubmissions"} =>
         /\ ~obs.threw
         /\ (obs.pre.kind \in {"absent", "corrupt"} \/ obs.mode = "disabled")
              => obs.ret = <<JsArray(<<>>)>>
    /\ obs.op = "getCurrentUser" =>
         /\ ~obs.threw
         /\ (sessionStore.kind \in {"absent", "corrupt"} \/ obs.mode = "disabled")
              => obs.ret = <<>>

\* The case of C7: a read of text that is not JSON, answered by [].
C7_Witness ==
    /\ obs.op = "loadFavorites"
    /\ obs.pre = CorruptText
    /\ obs.mode = "ok"
    /\ obs.ret = <<JsArray(<<>>)>>

\* =================================================================
\* Text
\* =================================================================
IsSpace(c) == c \in {" ", "\t", "\n"}

RECURSIVE TrimLeft(_)
TrimLeft(s) ==
    IF s = <<>> THEN s
    ELSE IF IsSpace(Head(s)) THEN TrimLeft(Tail(s)) ELSE s

RECURSIVE TrimRight(_)
TrimRight(s) ==
    IF s = <<>> THEN s
    ELSE IF IsSpace(s[Len(s)]) THEN TrimRight(SubSeq(s, 1, Len(s) - 1)) ELSE s

\* $.trim(text) / text.trim()
Trim(s) == TrimRight(TrimLeft(s))

\* /^[^\s@]+@[^\s@]+\.[^\s@]+$/.test(s): an "@" at i, a "." at j with text
\* before the "@", between the two and after the ".", and neither white
\* space nor a second "@" anywhere.
EMAIL_PATTERN(s) ==
    \E i \in 2..Len(s) : \E j \in (i + 2)..(Len(s) - 1) :
        /\ s[i] = "@"
        /\ s[j] = "."
        /\ \A k \in (1..Len(s)) \ {i} : ~IsSpace(s[k]) /\ s[k] # "@"

\* =================================================================
\* Contact form (contactForm.js)
\* =================================================================
MIN_NAME_LENGTH == 2
MIN_MESSAGE_LENGTH == 10

\* validateField: the error message for a field's value ("" when valid).
\* The rules applied to the value as typed, without trimming.
FieldErrorUntrimmed(fieldName, raw) ==
    IF fieldName = "name"
    THEN IF Len(raw) = 0 THEN "Full name is required."
         ELSE IF Len(raw) < MIN_NAME_LENGTH
              THEN "Name must be at least 2 characters."
              ELSE ""
    ELSE IF fieldName = "email"
    THEN IF Len(raw) = 0 THEN "Email address is required."
         ELSE IF ~EMAIL_PATTERN(raw)
              THEN "Please enter a valid email address."
              ELSE ""
    ELSE IF fieldName = "message"
    THEN IF Len(raw) = 0 THEN "Message is required."
         ELSE IF Len(raw) < MIN_MESSAGE_LENGTH
              THEN "Message must be at least 10 characters."
              ELSE ""
    ELSE ""

FieldError(fieldName, raw) ==
    LET value == Trim(raw) IN
    IF fieldName = "name"
    THEN IF Len(value) = 0 THEN "Full name is required."
         ELSE IF Len(value) < MIN_NAME_LENGTH
              THEN "Name must be at least 2 characters."
              ELSE ""
    ELSE IF fieldName = "email"
    THEN IF Len(value) = 0 THEN "Email address is required."
         ELSE IF ~EMAIL_PATTERN(value)
              THEN "Please enter a valid email address."
              ELSE ""
    ELSE IF fieldName = "message"
    THEN IF Len(value) = 0 THEN "Message is required."
         ELSE IF Len(value) < MIN_MESSAGE_LENGTH
              THEN "Message must be at least 10 characters."
              ELSE ""
    ELSE ""

\* validateField($field, $errorSpan): the field's marker and error text
\* after it, and the boolean it returns.
validateField(fieldName, raw) ==
    LET errorMessage == FieldError(fieldName, raw) IN
    IF errorMessage # ""
    THEN [class |-> "invalid", error |-> errorMessage, ok |-> FALSE]
    ELSE [class |-> "valid", error |-> "", ok |-> TRUE]

\* validateForm that keeps only the result of the last field validated.
validateFormLastOnly(values) == validateField("message", values["message"]).ok

\* validateForm($form): all three validators run; the result is their
\* conjunction.
validateForm(values) ==
    /\ validateField("name", values["name"]).ok
    /\ validateField("email", values["email"]).ok
    /\ validateField("message", values["message"]).ok

\* The markers and error texts validateForm leaves: every required field is
\* validated, whatever the others gave.
ClassAfterValidateForm(values, class) ==
    [f \in ContactFields |->
        IF f \in RequiredFields THEN validateField(f, values[f]).class
        ELSE class[f]]
ErrorAfterValidateForm(values) ==
    [f \in RequiredFields |-> validateField(f, values[f]).error]

\* showFeedback($feedbackDiv, message, type)
showFeedback(text, name, type) == [type |-> type, text |-> text, name |-> name]

\* hideFeedback($feedbackDiv)
hideFeedback == NoFeedback

\* The subject recorded for a blank subject field.
NoSubject == <<"(No subject)">>

\* The formData literal with the default taken before trimming the subject.
FormDataRawSubject(values, now) ==
    [name |-> Trim(values["name"]), email |-> Trim(values["email"]),
     subject |-> IF values["subject"] = <<>> THEN NoSubject
                 ELSE Trim(values["subject"]),
     message |-> Trim(values["message"]), submittedAt |-> toISOString(now)]

\* The formData literal of the submit handler.
FormData(values, now) ==
    [name |-> Trim(values["name"]), email |-> Trim(values["email"]),
     subject |-> IF Trim(values["subject"]) = <<>> THEN NoSubject
                 ELSE Trim(values["subject"]),
     message |-> Trim(values["message"]), submittedAt |-> toISOString(now)]

\* The submit button left as it is when a submission is accepted.
SubmitBtnLeftEnabled == [disabled |-> FALSE, text |-> "Sending..."]

\* $submitBtn.prop("disabled", true).text("Sending...")
SubmitBtnSending == [disabled |-> TRUE, text |-> "Sending..."]

\* The browser dispatches a submit event only through the form's submit
\* button, and not while that button is disabled.
SubmitAffordance == ~submitBtn.disabled

\* Texts the user types into the contact fields.
Hello == <<"H", "e", "l", "l", "o", " ", "t", "h", "e", "r", "e">>
TypedValues(f) ==
    IF f = "name" THEN {<<"A">>, <<" ", "A", "l", " ">>}
    ELSE IF f = "email" THEN {<<"a", "@", "b">>, <<"a", "@", "b", ".", "c">>}
    ELSE IF f = "subject" THEN {<<" ">>, <<"H", "i">>}
    ELSE {Hello}

\* An event that calls no repository function.
Event(op) == [NoObs EXCEPT !.op = op]

\* The user edits a field; the input handler clears an invalid marker and
\* its error text.
TypeField ==
    /\ page = "contact" /\ location = "" /\ pc = 0
    /\ \E f \in ContactFields : \E v \in TypedValues(f) :
         /\ v # cfValue[f]
         /\ cfValue' = [cfValue EXCEPT ![f] = v]
         /\ IF cfClass[f] = "invalid"
            THEN /\ cfClass' = [cfClass EXCEPT ![f] = "none"]
                 /\ cfError' = IF f \in RequiredFields
                               THEN [cfError EXCEPT ![f] = ""] ELSE cfError
            ELSE UNCHANGED <<cfClass, cfError>>
    /\ obs' = Event("input")
    /\ UNCHANGED <<page, inflight, blogVars, navVars, pc, clock, storeVars, location, feedback, submitBtn,
                   latencyTimers, hideTimers, accepted, accountVars, welcomeVars>>

\* A required field loses focus: validateField on it alone.
BlurField ==
    /\ page = "contact" /\ location = "" /\ pc = 0
    /\ \E f \in RequiredFields :
         LET r == validateField(f, cfValue[f]) IN
         /\ cfClass' = [cfClass EXCEPT ![f] = r.class]
         /\ cfError' = [cfError EXCEPT ![f] = r.error]
    /\ obs' = Event("blur")
    /\ UNCHANGED <<page, inflight, blogVars, navVars, pc, clock, storeVars, location, cfValue, feedback, submitBtn,
                   latencyTimers, hideTimers, accepted, accountVars, welcomeVars>>

\* The submit handler: hide the banner, validate; on failure show the error
\* banner and return; otherwise collect formData, disable the button and
\* start the 800 ms timer.
Submit ==
    /\ page = "contact" /\ location = "" /\ pc = 0
    /\ SubmitAffordance
    /\ cfClass' = ClassAfterValidateForm(cfValue, cfClass)
    /\ cfError' = ErrorAfterValidateForm(cfValue)
    /\ IF ~validateForm(cfValue)
       THEN /\ feedback' = showFeedback("Please fix the errors above before submitting.",
                                        <<>>, "error")
            /\ obs' = [Event("submit") EXCEPT !.ret = <<FALSE>>,
                                              !.pre = localStore[STORAGE_KEY]]
            /\ UNCHANGED <<submitBtn, latencyTimers, accepted>>
       ELSE /\ accepted < MaxInq
            /\ feedback' = hideFeedback
            /\ submitBtn' = SubmitBtnSending
            /\ latencyTimers' = Append(latencyTimers, FormData(cfValue, clock))
            /\ accepted' = accepted + 1
            /\ obs' = [Event("submit") EXCEPT !.ret = <<TRUE>>,
                                              !.pre = localStore[STORAGE_KEY]]
    /\ UNCHANGED <<page, inflight, blogVars, navVars, pc, clock, storeVars, location, cfValue, hideTimers,
                   accountVars, welcomeVars>>

\* The 800 ms callback: saveSubmission, success banner, resetForm, re-enable
\* the button, start the 8 s timer. A TypeError out of saveSubmission ends
\* the callback there.
\* A callback that reads the fields when the timer fires.
FormDataReadAtTimeout(timers, values, now) == FormData(values, now)

\* The formData the 800 ms callback closes over: the object built at the
\* submit event that set the timer.
CapturedFormData(timers, values, now) == Head(timers)

LatencyFire ==
    /\ page = "contact" /\ location = "" /\ pc = 0
    /\ latencyTimers # <<>>
    /\ \E mode \in StoreModes :
         LET formData == CapturedFormData(latencyTimers, cfValue, clock)
             r == saveSubmission(mode, localStore, formData)
         IN /\ localStore' = r.store
            /\ obs' = Obs("latency", mode, 0, NoDrink, localStore[STORAGE_KEY],
                          [r EXCEPT !.ret = <<formData>>])
            /\ IF r.threw
               THEN UNCHANGED <<cfValue, cfClass, cfError, feedback, submitBtn,
                                hideTimers>>
               ELSE /\ feedback' = showFeedback("Thank you", formData.name, "success")
                    /\ cfValue' = PristineValues
                    /\ cfClass' = [f \in ContactFields |-> "none"]
                    /\ cfError' = [f \in RequiredFields |-> ""]
                    /\ submitBtn' = SendButton
                    /\ hideTimers' = hideTimers + 1
    /\ latencyTimers' = Tail(latencyTimers)
    /\ clock' = clock + 1
    /\ UNCHANGED <<page, inflight, blogVars, navVars, pc, sessionStore, location, accepted, accountVars, welcomeVars>>

\* An 8 s callback: hideFeedback.
HideFire ==
    /\ page = "contact" /\ location = "" /\ pc = 0
    /\ hideTimers > 0
    /\ hideTimers' = hideTimers - 1
    /\ feedback' = hideFeedback
    /\ obs' = Event("hide")
    /\ UNCHANGED <<page, inflight, blogVars, navVars, pc, clock, storeVars, location, cfValue, cfClass, cfError,
                   submitBtn, latencyTimers, accepted, accountVars, welcomeVars>>

InitContact ==
    /\ page = "contact"
    /\ clock = 1
    /\ obs = NoObs
    /\ inflight = NoInflight
    /\ BlogPristine
    /\ NavPristine
    /\ location = ""
    /\ \E t \in InitTexts : localStore = [EmptyStore EXCEPT ![STORAGE_KEY] = t]
    /\ sessionStore = NoSession
    /\ ContactPristine
    /\ AccountPristine
    /\ WelcomePristine

NextContact ==
    \/ TypeField
    \/ BlurField
    \/ Submit
    \/ LatencyFire
    \/ HideFire

SpecContact == InitContact /\ [][NextContact]_vars

\* =================================================================
\* Registration form (account creation script)
\* =================================================================
MIN_PASSWORD_LENGTH == 8
MIN_USERNAME_LENGTH == 3
MAX_USERNAME_LENGTH == 20

UpperChars ==
    {"A", "B", "C", "D", "E", "F", "G", "H", "I", "J", "K", "L", "M",
     "N", "O", "P", "Q", "R", "S", "T", "U", "V", "W", "X", "Y", "Z"}
LowerChars ==
    {"a", "b", "c", "d", "e", "f", "g", "h", "i", "j", "k", "l", "m",
     "n", "o", "p", "q", "r", "s", "t", "u", "v", "w", "x", "y", "z"}
DigitChars == {"0", "1", "2", "3", "4", "5", "6", "7", "8", "9"}
PASSWORD_SPECIAL_CHARS_REGEX == {"!", "@", "#", "$", "%", "^", "&", "*"}

\* regex.test(s) for a character class: some character of s is in it.
HasChar(s, class) == \E i \in 1..Len(s) : s[i] \in class

Valid == [valid |-> TRUE, message |-> ""]
Invalid(message) == [valid |-> FALSE, message |-> message]

validateUsername(username) ==
    IF Len(Trim(username)) < MIN_USERNAME_LENGTH
    THEN Invalid("Username must be at least 3 characters.")
    ELSE IF Len(Trim(username)) > MAX_USERNAME_LENGTH
    THEN Invalid("Username must be no more than 20 characters.")
    ELSE IF \E i \in 1..Len(Trim(username)) :
              Trim(username)[i] \notin UpperChars \cup LowerChars \cup DigitChars
    THEN Invalid("Username can only contain letters and numbers.")
    ELSE Valid

validateEmail(email) ==
    IF Len(Trim(email)) = 0 THEN Invalid("Email address is required.")
    ELSE IF ~EMAIL_PATTERN(Trim(email))
    THEN Invalid("Please enter a valid email address.")
    ELSE Valid

checkPasswordRequirements(password) ==
    [length |-> Len(password) >= MIN_PASSWORD_LENGTH,
     uppercase |-> HasChar(password, UpperChars),
     lowercase |-> HasChar(password, LowerChars),
     number |-> HasChar(password, DigitChars),
     special |-> HasChar(password, PASSWORD_SPECIAL_CHARS_REGEX)]

\* validatePassword that asks for length, lower case and a digit only.
validatePasswordLax(password) ==
    LET reqs == checkPasswordRequirements(password) IN
    IF Len(password) = 0 THEN Invalid("Password is required.")
    ELSE IF ~(reqs.length /\ reqs.lowercase /\ reqs.number)
    THEN Invalid("Password does not meet all requirements below.")
    ELSE Valid

validatePassword(password) ==
    LET reqs == checkPasswordRequirements(password) IN
    IF Len(password) = 0 THEN Invalid("Password is required.")
    ELSE IF ~(reqs.length /\ reqs.uppercase /\ reqs.lowercase /\ reqs.number
              /\ reqs.special)
    THEN Invalid("Password does not meet all requirements below.")
    ELSE Valid

validateConfirmPassword(password, confirm) ==
    IF Len(confirm) = 0 THEN Invalid("Please confirm your password.")
    ELSE IF password # confirm THEN Invalid("Passwords do not match.")
    ELSE Valid

\* setValid / setInvalid: the marker of a field after a validator's result.
MarkOf(result) == IF result.valid THEN "valid" ELSE "invalid"

RequirementKeys == {"length", "uppercase", "lowercase", "number", "special"}

\* updateStrengthBar and updateRequirementsList: the level shown and the
\* requirements ticked.
updateStrengthBar(password) ==
    LET reqs == checkPasswordRequirements(password)
        metCount == Cardinality({k \in RequirementKeys : reqs[k]})
        level == IF metCount <= 2 THEN "weak"
                 ELSE IF metCount = 3 THEN "fair"
                 ELSE IF metCount = 4 THEN "good"
                 ELSE "strong"
    IN [level |-> IF Len(password) > 0 THEN level ELSE "none",
        met |-> {k \in RequirementKeys : reqs[k]}]

\* The four validator results validateAll computes.
ResultsOf(values) ==
    [username |-> validateUsername(Trim(values["username"])),
     email |-> validateEmail(Trim(values["email"])),
     password |-> validatePassword(values["password"]),
     confirmPassword |-> validateConfirmPassword(values["password"],
                                                 values["confirmPassword"])]

\* validateAll(): the value it returns.
\* The order in which validateAll applies the field markers.
FieldOrder == <<"username", "email", "password", "confirmPassword">>

\* Markers that stop being applied after the first field that fails.
MarksUntilFirstFailure(values, marks) ==
    [f \in AccountFields |->
        LET i == CHOOSE k \in 1..Len(FieldOrder) : FieldOrder[k] = f IN
        IF \E j \in 1..(i - 1) : ~ResultsOf(values)[FieldOrder[j]].valid
        THEN marks[f]
        ELSE MarkOf(ResultsOf(values)[f])]

\* validateAll, the setValid / setInvalid calls: every field's marker follows
\* its own result.
MarksAfterValidateAll(values, marks) ==
    [f \in AccountFields |-> MarkOf(ResultsOf(values)[f])]

validateAll(values, termsChecked) ==
    /\ \A f \in AccountFields : ResultsOf(values)[f].valid
    /\ termsChecked

\* Texts the user types into the registration fields.
Bob == <<"b", "o", "b">>
Mail == <<"a", "@", "b", ".", "c">>
WeakPassword == <<"a", "b", "c", "1", "2", "3", "4", "5">>
StrongPassword == <<"A", "b", "c", "1", "2", "3", "4", "!">>
AccountTyped(f) ==
    IF f = "username" THEN {Bob}
    ELSE IF f = "email" THEN {Mail}
    ELSE IF f = "password" THEN {WeakPassword, StrongPassword}
    ELSE {WeakPassword, StrongPassword}

\* The user edits a field. Only the password field has an input handler
\* (handlePasswordInput): strength bar, requirements list, and the confirm
\* field re-validated when it has a value.
TypeAccount ==
    /\ page = "account" /\ location = ""
    /\ \E f \in AccountFields : \E v \in AccountTyped(f) :
         /\ v # rfValue[f]
         /\ rfValue' = [rfValue EXCEPT ![f] = v]
         /\ IF f = "password"
            THEN /\ strength' = updateStrengthBar(v)
                 /\ IF Len(rfValue["confirmPassword"]) > 0
                    THEN LET result == validateConfirmPassword(v, rfValue["confirmPassword"])
                         IN /\ rfMark' = [rfMark EXCEPT !["confirmPassword"] = MarkOf(result)]
                            /\ rfMsg' = [rfMsg EXCEPT !["confirmPassword"] = result.message]
                    ELSE UNCHANGED <<rfMark, rfMsg>>
            ELSE UNCHANGED <<rfMark, rfMsg, strength>>
    /\ obs' = Event("input")
    /\ UNCHANGED <<page, inflight, blogVars, navVars, clock, storeVars, location, rfTerms, termsInvalid,
                   contactVars, welcomeVars>>

\* A field loses focus: its validator alone.
BlurAccount ==
    /\ page = "account" /\ location = ""
    /\ \E f \in AccountFields :
         LET result == ResultsOf(rfValue)[f] IN
         /\ rfMark' = [rfMark EXCEPT ![f] = MarkOf(result)]
         /\ rfMsg' = [rfMsg EXCEPT ![f] = result.message]
    /\ obs' = Event("blur")
    /\ UNCHANGED <<page, inflight, blogVars, navVars, clock, storeVars, location, rfValue, rfTerms, termsInvalid,
                   strength, contactVars, welcomeVars>>

\* The terms checkbox changes; ticking it clears its invalid marker.
ChangeTerms ==
    /\ page = "account" /\ location = ""
    /\ rfTerms' = ~rfTerms
    /\ termsInvalid' = IF rfTerms' THEN FALSE ELSE termsInvalid
    /\ obs' = Event("change")
    /\ UNCHANGED <<page, inflight, blogVars, navVars, clock, storeVars, location, rfValue, rfMark, rfMsg,
                   strength, contactVars, welcomeVars>>

\* A userData literal that also carries the password.
userDataWithPassword(values) ==
    [username |-> Trim(values["username"]), email |-> Trim(values["email"]),
     password |-> values["password"]]

\* The userData literal of handleFormSubmit.
userData(values) ==
    [username |-> Trim(values["username"]), email |-> Trim(values["email"])]

\* handleFormSubmit: validateAll marks every field; on failure return;
\* otherwise write the session (exceptions caught) and redirect.
handleFormSubmit ==
    /\ page = "account" /\ location = ""
    /\ rfMark' = MarksAfterValidateAll(rfValue, rfMark)
    /\ rfMsg' = [f \in AccountFields |-> ResultsOf(rfValue)[f].message]
    /\ termsInvalid' = ~rfTerms
    /\ \E mode \in StoreModes :
         IF ~validateAll(rfValue, rfTerms)
         THEN /\ obs' = [Event("register") EXCEPT !.mode = mode, !.ret = <<FALSE>>,
                                                  !.pre = sessionStore]
              /\ UNCHANGED <<sessionStore, location>>
         ELSE /\ sessionStore' =
                   IF mode = "ok"
                   THEN SessionText(userData(rfValue))
                   ELSE sessionStore
              /\ location' = "welcome.html"
              /\ obs' = [Event("register") EXCEPT !.mode = mode, !.ret = <<TRUE>>,
                                                  !.pre = sessionStore,
                                                  !.wrote = TRUE,
                                                  !.writeThrew = (mode # "ok")]
    /\ UNCHANGED <<page, inflight, blogVars, navVars, clock, localStore, rfValue, rfTerms, strength,
                   contactVars, welcomeVars>>

InitAccount ==
    /\ page = "account"
    /\ clock = 1
    /\ obs = NoObs
    /\ inflight = NoInflight
    /\ BlogPristine
    /\ NavPristine
    /\ location = ""
    /\ localStore = EmptyStore
    /\ sessionStore \in InitSessions
    /\ ContactPristine
    /\ AccountPristine
    /\ WelcomePristine

NextAccount ==
    \/ TypeAccount
    \/ BlurAccount
    \/ ChangeTerms
    \/ handleFormSubmit

SpecAccount == InitAccount /\ [][NextAccount]_vars

\* =================================================================
\* Favorites dashboard (welcome page script)
\* =================================================================
\* formatDate(isoString): the calendar day of the instant.
formatDate(iso) == <<"day", iso[2] \div 86400000>>

\* buildDrinkCard(drink): what the card shows. The customization and notes
\* rows exist only for non-empty texts.
buildDrinkCard(drink) ==
    [id |-> drink.id, name |-> drink.name, size |-> drink.size,
     rows |-> (IF drink.customization # <<>> THEN <<drink.customization>> ELSE <<>>)
              \o (IF drink.notes # <<>> THEN <<drink.notes>> ELSE <<>>),
     added |-> formatDate(drink.addedAt)]

\* renderFavorites(): the old cards are removed first; .length of null
\* throws; a non-array value has no .length, so the empty state is hidden
\* and no card is built.
renderFavorites(mode, store, empty) ==
    LET l == loadFavorites(mode, store) IN
    IF l.val.t = "null"
    THEN [threw |-> TRUE, cards |-> <<>>, emptyShown |-> empty]
    ELSE IF l.val.t # "array"
    THEN [threw |-> FALSE, cards |-> <<>>, emptyShown |-> FALSE]
    ELSE [threw |-> FALSE,
          cards |-> [i \in 1..Len(l.val.v) |-> buildDrinkCard(l.val.v[i])],
          emptyShown |-> (Len(l.val.v) = 0)]

\* showToast(message, type): replaces any toast on display.
showToast(text, name, type) == [type |-> type, text |-> text, name |-> name]

\* What the user has put into a modal's fields when clicking its button.
ModalInputs ==
    {[name |-> <<" ", "L">>, size |-> "Medium", customization |-> <<>>,
      notes |-> <<" ">>],
     [name |-> <<"M">>, size |-> "Large", customization |-> <<"o", " ">>,
      notes |-> <<"n">>],
     [name |-> <<" ">>, size |-> "Medium", customization |-> <<>>, notes |-> <<>>]}

\* The object literal the modal handlers build from the fields.
DrinkOf(input) ==
    [name |-> Trim(input.name), size |-> input.size,
     customization |-> Trim(input.customization), notes |-> Trim(input.notes)]

\* $(document).ready: init() reads the session, binds the handlers and
\* renders; an exception out of renderFavorites ends init after the binding.
WelcomeInit ==
    /\ page = "welcome" /\ location = "" /\ ~ready
    /\ \E mode \in StoreModes :
         LET u == getCurrentUser(mode, sessionStore)
             r == renderFavorites(mode, localStore, emptyShown)
         IN /\ welcomeUsername' =
                  IF u.user # <<>> /\ u.user[1].username # <<>>
                  THEN u.user[1].username ELSE welcomeUsername
            /\ cards' = r.cards
            /\ emptyShown' = r.emptyShown
            /\ obs' = [Event("init") EXCEPT !.mode = mode, !.threw = r.threw,
                                            !.pre = localStore[FAVORITES_KEY]]
    /\ ready' = TRUE
    /\ UNCHANGED <<page, inflight, blogVars, navVars, clock, storeVars, location, modal, editDrinkId, toast,
                   contactVars, accountVars>>

\* The "Add" button of the page opens the add modal (markup, data-bs-toggle).
OpenAddModal ==
    /\ page = "welcome" /\ location = "" /\ ready
    /\ modal = "none"
    /\ modal' = "add"
    /\ obs' = Event("openAdd")
    /\ UNCHANGED <<page, inflight, blogVars, navVars, clock, storeVars, location, ready, editDrinkId, toast,
                   cards, emptyShown, welcomeUsername, contactVars, accountVars>>

\* The user dismisses the open modal; hidden.bs.modal resets its form.
CloseModal ==
    /\ page = "welcome" /\ location = "" /\ ready
    /\ modal # "none"
    /\ modal' = "none"
    /\ obs' = Event("closeModal")
    /\ UNCHANGED <<page, inflight, blogVars, navVars, clock, storeVars, location, ready, editDrinkId, toast,
                   cards, emptyShown, welcomeUsername, contactVars, accountVars>>

\* The toast hides itself after its delay.
ToastHide ==
    /\ page = "welcome" /\ location = "" /\ ready
    /\ toast # NoToast
    /\ toast' = NoToast
    /\ obs' = Event("toastHide")
    /\ UNCHANGED <<page, inflight, blogVars, navVars, clock, storeVars, location, ready, modal, editDrinkId,
                   cards, emptyShown, welcomeUsername, contactVars, accountVars>>

\* handleAddDrink: trims the fields; an empty name or size gives the error
\* toast; otherwise addFavorite, hide the modal, success toast, render.
\* Time has passed before the next click.
HandleAddDrink ==
    /\ page = "welcome" /\ location = "" /\ ready
    /\ modal = "add"
    /\ clock <= MaxClock
    /\ \E mode \in StoreModes, input \in ModalInputs :
         LET drink == DrinkOf(input) IN
         IF drink.name = <<>> \/ drink.size = ""
         THEN /\ toast' = showToast("Please fill in Drink Name and Size.", <<>>, "error")
              /\ obs' = [Event("handleAdd") EXCEPT !.mode = mode,
                                                   !.pre = localStore[FAVORITES_KEY]]
              /\ UNCHANGED <<localStore, modal, cards, emptyShown>>
         ELSE LET r == addFavorite(mode, localStore, clock, drink) IN
              /\ localStore' = r.store
              /\ obs' = Obs("handleAdd", mode, 0, drink, localStore[FAVORITES_KEY], r)
              /\ IF r.threw
                 THEN UNCHANGED <<modal, toast, cards, emptyShown>>
                 ELSE LET v == renderFavorites(mode, r.store, emptyShown) IN
                      /\ modal' = "none"
                      /\ toast' = showToast("added to your favorites!", drink.name, "success")
                      /\ cards' = v.cards
                      /\ emptyShown' = v.emptyShown
    /\ clock' = clock + 1
    /\ UNCHANGED <<page, inflight, blogVars, navVars, sessionStore, location, ready, editDrinkId,
                   welcomeUsername, contactVars, accountVars>>

\* handleEditClick on a card's Edit button: findFavorite; when found the
\* edit modal is filled and shown.
HandleEditClick ==
    /\ page = "welcome" /\ location = "" /\ ready
    /\ modal = "none"
    /\ \E mode \in StoreModes, i \in 1..Len(cards) :
         LET id == cards[i].id
             r == findFavorite(mode, localStore, id)
         IN /\ obs' = Obs("handleEdit", mode, id, NoDrink, localStore[FAVORITES_KEY], r)
            /\ IF r.threw \/ r.ret = <<>>
               THEN UNCHANGED <<modal, editDrinkId>>
               ELSE /\ editDrinkId' = r.ret[1].id
                    /\ modal' = "edit"
    /\ UNCHANGED <<page, inflight, blogVars, navVars, clock, storeVars, location, ready, toast, cards,
                   emptyShown, welcomeUsername, contactVars, accountVars>>

\* handleUpdateDrink: like handleAddDrink, with updateFavorite on the id the
\* edit modal holds; the value updateFavorite returns is not looked at.
HandleUpdateDrink ==
    /\ page = "welcome" /\ location = "" /\ ready
    /\ modal = "edit"
    /\ \E mode \in StoreModes, input \in ModalInputs :
         LET drink == DrinkOf(input) IN
         IF drink.name = <<>> \/ drink.size = ""
         THEN /\ toast' = showToast("Please fill in Drink Name and Size.", <<>>, "error")
              /\ obs' = [Event("handleUpdate") EXCEPT !.mode = mode,
                                                      !.pre = localStore[FAVORITES_KEY]]
              /\ UNCHANGED <<localStore, modal, cards, emptyShown>>
         ELSE LET r == updateFavorite(mode, localStore, editDrinkId, drink) IN
              /\ localStore' = r.store
              /\ obs' = Obs("handleUpdate", mode, editDrinkId, drink,
                            localStore[FAVORITES_KEY], r)
              /\ IF r.threw
                 THEN UNCHANGED <<modal, toast, cards, emptyShown>>
                 ELSE LET v == renderFavorites(mode, r.store, emptyShown) IN
                      /\ modal' = "none"
                      /\ toast' = showToast("updated successfully!", drink.name, "success")
                      /\ cards' = v.cards
                      /\ emptyShown' = v.emptyShown
    /\ UNCHANGED <<page, inflight, blogVars, navVars, clock, sessionStore, location, ready, editDrinkId,
                   welcomeUsername, contactVars, accountVars>>

\* handleDeleteClick on a card's Remove button: findFavorite, confirm(),
\* deleteFavorite, toast, render.
HandleDeleteClick ==
    /\ page = "welcome" /\ location = "" /\ ready
    /\ modal = "none"
    /\ \E mode \in StoreModes, i \in 1..Len(cards), confirm \in BOOLEAN :
         LET id == cards[i].id
             f == findFavorite(mode, localStore, id)
         IN IF f.threw \/ f.ret = <<>> \/ ~confirm
            THEN /\ obs' = Obs("handleDelete", mode, id, NoDrink,
                               localStore[FAVORITES_KEY], f)
                 /\ UNCHANGED <<localStore, toast, cards, emptyShown>>
            ELSE LET r == deleteFavorite(mode, localStore, id) IN
                 /\ localStore' = r.store
                 /\ obs' = Obs("handleDelete", mode, id, NoDrink,
                               localStore[FAVORITES_KEY], r)
                 /\ IF r.threw
                    THEN UNCHANGED <<toast, cards, emptyShown>>
                    ELSE LET v == renderFavorites(mode, r.store, emptyShown) IN
                         /\ toast' = showToast("removed from favorites.",
                                               f.ret[1].name, "success")
                         /\ cards' = v.cards
                         /\ emptyShown' = v.emptyShown
    /\ UNCHANGED <<page, inflight, blogVars, navVars, clock, sessionStore, location, ready, modal, editDrinkId,
                   welcomeUsername, contactVars, accountVars>>

\* handleOrderClick on a card's Order Again button.
HandleOrderClick ==
    /\ page = "welcome" /\ location = "" /\ ready
    /\ modal = "none"
    /\ \E mode \in StoreModes, i \in 1..Len(cards) :
         LET id == cards[i].id
             f == findFavorite(mode, localStore, id)
         IN /\ obs' = Obs("handleOrder", mode, id, NoDrink, localStore[FAVORITES_KEY], f)
            /\ toast' = IF ~f.threw /\ f.ret # <<>>
                        THEN showToast("Re-order is coming soon.", f.ret[1].name, "success")
                        ELSE toast
    /\ UNCHANGED <<page, inflight, blogVars, navVars, clock, storeVars, location, ready, modal, editDrinkId,
                   cards, emptyShown, welcomeUsername, contactVars, accountVars>>

\* sessionStorage.removeItem that removes nothing.
removeItemKeeps(mode, session) ==
    [threw |-> (mode = "disabled"), session |-> session]

\* sessionStorage.removeItem(SESSION_KEY)
removeItem(mode, session) ==
    IF mode = "disabled"
    THEN [threw |-> TRUE, session |-> session]
    ELSE [threw |-> FALSE, session |-> NoSession]

\* handleLogout: after confirm(), removeItem (not guarded by try/catch),
\* then the redirect.
HandleLogout ==
    /\ page = "welcome" /\ location = "" /\ ready
    /\ modal = "none"
    /\ \E mode \in StoreModes, confirm \in BOOLEAN :
         LET r == removeItem(mode, sessionStore) IN
         /\ obs' = [Event("handleLogout") EXCEPT !.mode = mode,
                       !.ret = <<confirm>>,
                       !.pre = sessionStore,
                       !.threw = (confirm /\ r.threw)]
         /\ IF confirm
            THEN /\ sessionStore' = r.session
                 /\ location' = IF r.threw THEN location ELSE "../index.html"
            ELSE UNCHANGED <<sessionStore, location>>
    /\ UNCHANGED <<page, inflight, blogVars, navVars, clock, localStore, welcomeVars, contactVars,
                   accountVars>>

InitWelcome ==
    /\ page = "welcome"
    /\ clock = 1
    /\ obs = NoObs
    /\ inflight = NoInflight
    /\ BlogPristine
    /\ NavPristine
    /\ location = ""
    /\ \E t \in InitTexts : localStore = [EmptyStore EXCEPT ![FAVORITES_KEY] = t]
    /\ sessionStore \in InitSessions
    /\ ContactPristine
    /\ AccountPristine
    /\ WelcomePristine

NextWelcome ==
    \/ WelcomeInit
    \/ OpenAddModal
    \/ CloseModal
    \/ ToastHide
    \/ HandleAddDrink
    \/ HandleEditClick
    \/ HandleUpdateDrink
    \/ HandleDeleteClick
    \/ HandleOrderClick
    \/ HandleLogout

SpecWelcome == InitWelcome /\ [][NextWelcome]_vars

\* =================================================================
\* The three pages, each loaded with whatever an earlier visit left behind
\* =================================================================
Init == InitContact \/ InitAccount \/ InitWelcome

Next == NextContact \/ NextAccount \/ NextWelcome

Spec == Init /\ [][Next]_vars

\* =================================================================
\* Claims about the pages
\* =================================================================
\* The last event called setItem and setItem threw.
WriteDropped == obs.wrote /\ obs.writeThrew

\* C8 (contact form): when setItem throws in the 800 ms callback, no
\* exception leaves it, the stored inquiries are what they were, nothing is
\* queued for a retry, and the success banner is up over a reset form with
\* the submit button enabled again.
C8_ContactDroppedWrite ==
    (obs.op = "latency" /\ WriteDropped) =>
        /\ ~obs.threw
        /\ localStore[STORAGE_KEY] = obs.pre
        /\ latencyTimers = <<>>
        /\ feedback.type = "success"
        /\ cfValue = PristineValues
        /\ \A f \in ContactFields : cfClass[f] = "none"
        /\ submitBtn = SendButton

\* C8 (favorites dashboard): when setItem throws in an add, update or remove
\* handler, no exception leaves it, the stored favorites are what they were,
\* no modal is left open, the toast is the success toast and the cards are
\* those of the stored list.
C8_FavoritesDroppedWrite ==
    (obs.op \in {"handleAdd", "handleUpdate", "handleDelete"} /\ WriteDropped) =>
        /\ ~obs.threw
        /\ localStore[FAVORITES_KEY] = obs.pre
        /\ modal = "none"
        /\ toast.type = "success"
        /\ cards = [i \in 1..Len(IF obs.mode = "disabled" THEN <<>> ELSE Favs) |->
                       buildDrinkCard(Favs[i])]
        /\ emptyShown = (cards = <<>>)

\* C8: a write that throws is dropped without an exception reaching the
\* caller; the collection keeps its value, the record is lost without retry,
\* and the user-visible action completes as if it had been written.
C8_DroppedWriteIsNonFatal ==
    /\ WriteDropped => ~obs.threw
    /\ C8_ContactDroppedWrite
    /\ C8_FavoritesDroppedWrite

\* A contact submission was persisted, the next one's write was dropped.
C8_Witness ==
    /\ obs.op = "latency"
    /\ WriteDropped
    /\ Len(Inqs) = 1
    /\ feedback.type = "success"

\* A favorite was stored, the next add's write was dropped on a full store.
C8_FavoritesWitness ==
    /\ obs.op = "handleAdd"
    /\ WriteDropped
    /\ obs.mode = "full"
    /\ Len(cards) = 1

\* Some required contact field is empty or malformed after trimming.
ContactInputInvalid ==
    \/ Len(Trim(cfValue["name"])) < 2
    \/ ~EMAIL_PATTERN(Trim(cfValue["email"]))
    \/ Len(Trim(cfValue["message"])) < 10

\* Some registration input breaks a rule of the form.
RegistrationInputInvalid ==
    LET password == rfValue["password"] IN
    \/ Len(Trim(rfValue["username"])) < 3
    \/ ~EMAIL_PATTERN(Trim(rfValue["email"]))
    \/ Len(password) < 8
    \/ ~HasChar(password, UpperChars)
    \/ ~HasChar(password, LowerChars)
    \/ ~HasChar(password, DigitChars)
    \/ ~HasChar(password, PASSWORD_SPECIAL_CHARS_REGEX)
    \/ rfValue["confirmPassword"] # password
    \/ ~rfTerms

\* C9: a submit whose validation fails persists nothing. Contact form: the
\* stored inquiries are unchanged, no latency timer runs, the button is
\* enabled and the error banner is shown. Registration form: the session is
\* unchanged and the page is not left.
C9_InvalidSubmitPersistsNothing ==
    /\ (obs.op = "submit" /\ ContactInputInvalid) =>
          /\ localStore[STORAGE_KEY] = obs.pre
          /\ latencyTimers = <<>>
          /\ ~submitBtn.disabled
          /\ feedback.type = "error"
    /\ (obs.op = "register" /\ RegistrationInputInvalid) =>
          /\ ~obs.wrote
          /\ sessionStore = obs.pre
          /\ location = ""

\* Registration submitted with password "abc12345", everything else in order.
C9_Witness ==
    /\ obs.op = "register"
    /\ rfValue["username"] = Bob
    /\ rfValue["email"] = Mail
    /\ rfValue["password"] = WeakPassword
    /\ rfValue["confirmPassword"] = WeakPassword
    /\ rfTerms
    /\ rfMark["password"] = "invalid"

\* A contact submit with a name that is too short and every other field fine.
C9_ContactWitness ==
    /\ obs.op = "submit"
    /\ cfValue["name"] = <<"A">>
    /\ cfValue["email"] = Mail
    /\ cfValue["message"] = Hello
    /\ feedback.type = "error"

\* C10: while an accepted submission waits for its 800 ms callback the
\* submit button is disabled and no second submission is waiting; every
\* stored inquiry and every waiting one is a submission of its own.
C10_DuplicateSubmissionGuard ==
    /\ Len(latencyTimers) <= 1
    /\ latencyTimers # <<>> => submitBtn.disabled /\ ~SubmitAffordance
    /\ Len(Inqs) + Len(latencyTimers) <= accepted
    /\ \A i, j \in 1..Len(Inqs) : i # j => Inqs[i].submittedAt # Inqs[j].submittedAt

\* A second submission waits while the first one is stored.
C10_Witness ==
    /\ Len(Inqs) = 1
    /\ Len(latencyTimers) = 1
    /\ accepted = 2
    /\ submitBtn.disabled

\* =================================================================
\* The contact page, with the 800 ms callback taken statement by statement
\* =================================================================
\* The statements of the callback in a wrong order: banner before the write.
CallbackBannerFirst == <<"showFeedback", "saveSubmission", "resetForm", "enable">>

\* The statements of the 800 ms callback, in source order; the last one
\* re-enables the button and starts the 8 s timer.
Callback == <<"saveSubmission", "showFeedback", "resetForm", "enable">>

\* One statement of the callback of the timer at the head of latencyTimers.
\* No other handler runs until the callback has ended; an exception out of
\* saveSubmission ends it.
CallbackStep ==
    /\ page = "contact" /\ location = ""
    /\ latencyTimers # <<>>
    /\ LET formData == CapturedFormData(latencyTimers, cfValue, clock)
           at == IF pc = 0 THEN 1 ELSE pc
           stmt == Callback[at]
           next == IF at = Len(Callback) THEN 0 ELSE at + 1
       IN
       \/ /\ stmt = "saveSubmission"
          /\ \E mode \in StoreModes :
               LET r == saveSubmission(mode, localStore, formData) IN
               /\ localStore' = r.store
               /\ obs' = Obs("saveSubmission", mode, 0, NoDrink, localStore[STORAGE_KEY],
                             [r EXCEPT !.ret = <<formData>>])
               /\ pc' = IF r.threw THEN 0 ELSE next
          /\ UNCHANGED <<cfValue, cfClass, cfError, feedback, submitBtn, hideTimers>>
       \/ /\ stmt = "showFeedback"
          /\ feedback' = showFeedback("Thank you", formData.name, "success")
          /\ obs' = [obs EXCEPT !.op = stmt]
          /\ pc' = next
          /\ UNCHANGED <<localStore, cfValue, cfClass, cfError, submitBtn,
                         hideTimers>>
       \/ /\ stmt = "resetForm"
          /\ cfValue' = PristineValues
          /\ cfClass' = [f \in ContactFields |-> "none"]
          /\ cfError' = [f \in RequiredFields |-> ""]
          /\ obs' = [obs EXCEPT !.op = stmt]
          /\ pc' = next
          /\ UNCHANGED <<localStore, feedback, submitBtn, hideTimers>>
       \/ /\ stmt = "enable"
          /\ submitBtn' = SendButton
          /\ hideTimers' = hideTimers + 1
          /\ obs' = [obs EXCEPT !.op = stmt]
          /\ pc' = next
          /\ UNCHANGED <<localStore, cfValue, cfClass, cfError, feedback>>
    /\ IF pc' = 0
       THEN /\ latencyTimers' = Tail(latencyTimers)
            /\ clock' = clock + 1
       ELSE UNCHANGED <<latencyTimers, clock>>
    /\ UNCHANGED <<page, inflight, blogVars, navVars, sessionStore, location, accepted, accountVars, welcomeVars>>

\* The tab leaves the page (a link, the address bar, reload): its timers die
\* with the document; no handler of the script runs on unload.
NavigateAway ==
    /\ page = "contact" /\ location = "" /\ pc = 0
    /\ location' = "away"
    /\ latencyTimers' = <<>>
    /\ hideTimers' = 0
    /\ clock' = IF latencyTimers # <<>> THEN clock + 1 ELSE clock
    /\ obs' = [Event("navigate") EXCEPT !.pre = localStore[STORAGE_KEY],
                                        !.ret = latencyTimers]
    /\ UNCHANGED <<page, inflight, blogVars, navVars, pc, storeVars, cfValue, cfClass, cfError, feedback,
                   submitBtn, accepted, accountVars, welcomeVars>>

\* The contact page is loaded again: the form as authored, and
\* initContactForm binds the handlers; nothing is read from storage.
PageLoad ==
    /\ page = "contact" /\ location = "away"
    /\ location' = ""
    /\ cfValue' = PristineValues
    /\ cfClass' = [f \in ContactFields |-> "none"]
    /\ cfError' = [f \in RequiredFields |-> ""]
    /\ feedback' = NoFeedback
    /\ submitBtn' = SendButton
    /\ obs' = [Event("load") EXCEPT !.pre = localStore[STORAGE_KEY]]
    /\ UNCHANGED <<page, inflight, blogVars, navVars, pc, clock, storeVars, latencyTimers, hideTimers, accepted,
                   accountVars, welcomeVars>>

NextContactSteps ==
    \/ TypeField
    \/ BlurField
    \/ Submit
    \/ CallbackStep
    \/ HideFire
    \/ NavigateAway
    \/ PageLoad

SpecContactSteps == InitContact /\ [][NextContactSteps]_vars

\* The running callback's submission is not among the stored inquiries.
NotStored(recs) ==
    \A i \in 1..Len(recs) : \A j \in 1..Len(Inqs) : Inqs[j] # recs[i]

\* C11: on an accepted contact submission the button is disabled at submit
\* time and storage is not touched then; the inquiry is written only when the
\* latency timer fires; only after that write is the success banner shown,
\* then the fields are reset, then the button is re-enabled. When the page is
\* left while the timer waits, storage stays as it was and the submission is
\* never written, also not after the page is loaded again.
C11_SubmissionOrdering ==
    /\ (obs.op = "submit" /\ obs.ret = <<TRUE>>) =>
          /\ submitBtn.disabled
          /\ localStore[STORAGE_KEY] = obs.pre
          /\ Len(latencyTimers) = 1
    /\ (latencyTimers # <<>> /\ pc = 0) =>
          /\ submitBtn.disabled
          /\ feedback.type # "success"
          /\ NotStored(latencyTimers)
    /\ (obs.op = "saveSubmission" /\ pc # 0) =>
          /\ obs.wrote
          /\ submitBtn.disabled
          /\ feedback.type # "success"
    /\ obs.op = "showFeedback" =>
          /\ obs.wrote
          /\ feedback.type = "success"
          /\ submitBtn.disabled
    /\ obs.op = "resetForm" =>
          /\ obs.wrote
          /\ feedback.type = "success"
          /\ cfValue = PristineValues
          /\ submitBtn.disabled
    /\ obs.op = "enable" =>
          /\ obs.wrote
          /\ feedback.type = "success"
          /\ cfValue = PristineValues
          /\ ~submitBtn.disabled
          /\ pc = 0
    /\ obs.op = "navigate" =>
          /\ localStore[STORAGE_KEY] = obs.pre
          /\ latencyTimers = <<>>
          /\ NotStored(obs.ret)
    /\ obs.op = "load" =>
          /\ localStore[STORAGE_KEY] = obs.pre
          /\ latencyTimers = <<>>

\* A submission went through all four statements and its inquiry is stored.
C11_Witness ==
    /\ obs.op = "enable"
    /\ ~obs.writeThrew
    /\ Len(Inqs) = 1
    /\ Inqs[1] = obs.ret[1]

\* The page was left while a submission waited, and loaded again, with an
\* earlier inquiry stored.
C11_InterruptWitness ==
    /\ obs.op = "load"
    /\ accepted = 2
    /\ Len(Inqs) = 1

\* =================================================================
\* The contact page with its timers firing
\* =================================================================
\* The page stays open and every scheduled timer fires; what the user does,
\* and when, is left open.
SpecContactLive ==
    /\ InitContact
    /\ [][NextContact]_vars
    /\ WF_vars(LatencyFire)
    /\ WF_vars(HideFire)

\* The controller is idle: button enabled, fields as authored, no banner.
ContactIdle ==
    /\ ~submitBtn.disabled
    /\ cfValue = PristineValues
    /\ \A f \in ContactFields : cfClass[f] = "none"
    /\ feedback.type = "none"

\* C12: every accepted submission is followed, sooner or later, by a state
\* with the submit button enabled, all fields pristine and no banner shown.
C12_ReturnsToIdle == (latencyTimers # <<>>) ~> ContactIdle

\* C12, the part the timers alone decide: the submit button is enabled again
\* after every accepted submission.
C12_ButtonComesBack == (latencyTimers # <<>>) ~> ~submitBtn.disabled

\* =================================================================
\* Claims about the contact form's records
\* =================================================================
\* The record a submission of the present field values has to produce.
ExpectedSubject ==
    IF \A i \in 1..Len(cfValue["subject"]) : IsSpace(cfValue["subject"][i])
    THEN NoSubject
    ELSE Trim(cfValue["subject"])

\* The submission accepted last took the trimmed field values.
SnapshotIsTrimmed ==
    (obs.op = "submit" /\ obs.ret = <<TRUE>>) =>
        LET formData == latencyTimers[Len(latencyTimers)] IN
        /\ formData.name = Trim(cfValue["name"])
        /\ formData.email = Trim(cfValue["email"])
        /\ formData.message = Trim(cfValue["message"])
        /\ formData.subject = ExpectedSubject

\* C13 as stated: every accepted submission appends exactly its one record.
C13_AlwaysAppendsOne ==
    /\ SnapshotIsTrimmed
    /\ obs.op = "latency" => Inqs = Items(obs.pre) \o obs.ret

\* C13, amended: the record of an accepted submission holds the trimmed name,
\* email and message and the trimmed subject, or "(No subject)" for an empty
\* or all-blank subject; it is appended, once, when the stored value reads as
\* a collection and setItem succeeds; otherwise storage is left as it was.
C13_AppendsTrimmedRecord ==
    /\ SnapshotIsTrimmed
    /\ obs.op = "latency" =>
          IF obs.mode = "ok" /\ ReadsAsCollection(obs.pre)
          THEN Inqs = Items(obs.pre) \o obs.ret
          ELSE localStore[STORAGE_KEY] = obs.pre

\* A second record was appended, with the default subject and a trimmed name.
C13_Witness ==
    /\ obs.op = "latency"
    /\ obs.mode = "ok"
    /\ Len(Inqs) = 2
    /\ Inqs[2] = obs.ret[1]
    /\ Inqs[2].subject = NoSubject
    /\ Inqs[2].name = <<"A", "l">>

\* A submission was accepted with a subject of blanks only.
C13_BlankSubjectWitness ==
    /\ obs.op = "submit"
    /\ obs.ret = <<TRUE>>
    /\ cfValue["subject"] = <<" ">>
    /\ latencyTimers[1].subject = NoSubject

\* C14: every step of the contact page leaves the stored inquiries as they
\* are or adds one record at their end; no stored inquiry is dropped, changed
\* or moved.
C14_AppendOnly ==
    [][\/ Inqs' = Inqs
       \/ /\ Len(Inqs') = Len(Inqs) + 1
          /\ SubSeq(Inqs', 1, Len(Inqs)) = Inqs]_vars

\* A second inquiry was appended behind the first, which is as it was.
C14_Witness ==
    /\ obs.op = "latency"
    /\ Len(Inqs) = 2
    /\ obs.pre = JsonText(JsArray(<<Inqs[1]>>))
    /\ Inqs[1].submittedAt # Inqs[2].submittedAt

\* =================================================================
\* Two tabs on the same origin
\* =================================================================
\* The list a repository call saves is built from the one it would load now.
ListSavedReread(loaded, current) == current

\* The list a repository call saves is built from the one it loaded at its
\* start (const favorites = loadFavorites(); ... saveFavorites(favorites)).
ListSaved(loaded, current) == loaded

KeyOf(kind) == IF kind = "submit" THEN STORAGE_KEY ELSE FAVORITES_KEY

\* The drink tab t puts into its add and edit modals.
DrinkOfTab(t) == IF t = 1 THEN Drink1 ELSE Drink2

\* A tab enters a repository call and reads the stored text (storage is
\* working). A tab runs one handler at a time, so it is in at most one call.
TabLoad ==
    /\ \E t \in Tabs :
         /\ inflight[t].at = "idle"
         /\ inflight[t].calls < MaxTabCalls
         /\ \E id \in IdArgs, subject \in SubjectArgs,
               kind \in IF page = "welcome" THEN {"add", "update", "delete"}
                        ELSE {"submit"} :
              /\ kind \in {"add", "submit"} => id = 0
              /\ kind # "submit" => subject = NoSubject
              /\ kind \in {"update", "delete"} =>
                    \E i \in 1..Len(Favs) : Favs[i].id = id
              /\ kind = "add" => Len(Favs) < MaxFavs
              /\ kind = "submit" => Len(Inqs) < MaxInq
              /\ inflight' = [inflight EXCEPT ![t] =
                    [at |-> "loaded", kind |-> kind, mode |-> "ok", id |-> id,
                     arg |-> IF kind = "submit" THEN Inquiry(subject, clock)
                             ELSE DrinkOfTab(t),
                     now |-> IF kind \in {"add", "submit"} THEN clock ELSE 0,
                     loaded |-> localStore[KeyOf(kind)], stale |-> FALSE,
                     calls |-> inflight[t].calls + 1]]
              /\ obs' = Event("tabLoad")
    /\ UNCHANGED <<page, clock, storeVars, uiVars>>

\* The tab finishes the call: the list it loaded is changed and saved. obs
\* keeps the call with the text it had loaded.
TabSave ==
    /\ \E t \in Tabs :
         /\ inflight[t].at = "loaded"
         /\ LET c == inflight[t]
                key == KeyOf(c.kind)
                seen == [localStore EXCEPT ![key] = ListSaved(c.loaded, localStore[key])]
                r == IF c.kind = "add" THEN addFavorite(c.mode, seen, c.now, c.arg)
                     ELSE IF c.kind = "update"
                     THEN updateFavorite(c.mode, seen, c.id, c.arg)
                     ELSE IF c.kind = "delete" THEN deleteFavorite(c.mode, seen, c.id)
                     ELSE [saveSubmission(c.mode, seen, c.arg) EXCEPT !.ret = <<c.arg>>]
                written == r.wrote /\ ~r.writeThrew
            IN /\ localStore' = IF written
                                THEN [localStore EXCEPT ![key] = r.store[key]]
                                ELSE localStore
               /\ inflight' = [u \in Tabs |->
                     IF u = t THEN [NoCall EXCEPT !.calls = c.calls]
                     ELSE IF inflight[u].at = "loaded" /\ written
                     THEN [inflight[u] EXCEPT !.stale = TRUE]
                     ELSE inflight[u]]
               /\ obs' = Obs("tabSave", c.mode, c.id, c, localStore[key], r)
    /\ UNCHANGED <<page, clock, sessionStore, uiVars>>

NextTabs ==
    \/ Tick
    \/ TabLoad
    \/ TabSave

SpecTabs == InitRepo /\ [][NextTabs]_vars

\* C15: a repository call that saves writes the list it loaded with its own
\* change applied, whatever the other tab has stored since (last write wins,
\* nothing is merged); and when no other tab wrote between its load and its
\* save, as always within one tab, the list it loaded is the stored one, so
\* nothing is lost.
C15_LastWriteWins ==
    obs.op = "tabSave" =>
        LET c == obs.arg
            old == Items(c.loaded)
            new == Items(localStore[KeyOf(c.kind)])
        IN /\ (obs.wrote /\ ~obs.writeThrew) =>
                /\ c.kind \in {"add", "submit"} => new = old \o obs.ret
                /\ c.kind = "delete" => new = SelectSeq(old, LAMBDA r : r.id # c.id)
                /\ c.kind = "update" =>
                      /\ Len(new) = Len(old)
                      /\ \A i \in 1..Len(old) :
                            /\ new[i].id = old[i].id
                            /\ old[i].id # c.id => new[i] = old[i]
           /\ ~c.stale => c.loaded = obs.pre

\* A lost update: a tab's add, saved from a list loaded before the other tab
\* wrote, has removed a record that was stored.
C15_Witness ==
    /\ obs.op = "tabSave"
    /\ obs.arg.kind = "add"
    /\ obs.arg.stale
    /\ obs.wrote /\ ~obs.writeThrew
    /\ \E i \in 1..Len(Items(obs.pre)) :
          \A j \in 1..Len(Favs) : Favs[j] # Items(obs.pre)[i]

\* The same for two contact submissions racing on codeBrewInquiries.
C15_InquiryWitness ==
    /\ obs.op = "tabSave"
    /\ obs.arg.kind = "submit"
    /\ obs.arg.stale
    /\ obs.wrote /\ ~obs.writeThrew
    /\ Len(Items(obs.pre)) = 1
    /\ Len(Inqs) = 1
    /\ Inqs # Items(obs.pre)

\* =================================================================
\* The registration form with any contents
\* =================================================================
\* What the fields can hold when the form is submitted: names with and
\* without blanks around them, two passwords that meet every requirement and
\* one that does not.
SpacedBob == <<" ", "b", "o", "b", " ">>
StrongPassword2 == <<"Z", "y", "x", "9", "8", "7", "6", "#">>
RegisterContents ==
    {v \in [AccountFields -> {<<>>, Bob, SpacedBob, Mail, WeakPassword,
                              StrongPassword, StrongPassword2}] :
        /\ v["username"] \in {<<>>, Bob, SpacedBob}
        /\ v["email"] \in {<<>>, Mail}
        /\ v["password"] \in {WeakPassword, StrongPassword, StrongPassword2}
        /\ v["confirmPassword"] \in {StrongPassword, StrongPassword2}}

InitRegister ==
    /\ page = "account"
    /\ clock = 1
    /\ obs = NoObs
    /\ inflight = NoInflight
    /\ BlogPristine
    /\ NavPristine
    /\ location = ""
    /\ localStore = EmptyStore
    /\ sessionStore \in InitSessions
    /\ ContactPristine
    /\ WelcomePristine
    /\ rfValue \in RegisterContents
    /\ rfTerms \in BOOLEAN
    /\ rfMark = [f \in AccountFields |-> "none"]
    /\ rfMsg = [f \in AccountFields |-> ""]
    /\ termsInvalid = FALSE
    /\ strength = updateStrengthBar(rfValue["password"])

NextRegister ==
    \/ BlurAccount
    \/ ChangeTerms
    \/ handleFormSubmit

SpecRegister == InitRegister /\ [][NextRegister]_vars

\* C16: whatever is submitted, the session text is either what it was or the
\* JSON of an object with exactly the two fields username and email, holding
\* the trimmed field values, and localStorage holds nothing; so the stored
\* contents do not depend on the password entered.
C16_NoPasswordPersisted ==
    /\ localStore = EmptyStore
    /\ obs.op = "register" =>
          IF obs.ret = <<TRUE>> /\ obs.mode = "ok"
          THEN /\ sessionStore.kind = "json"
               /\ DOMAIN sessionStore.user = {"username", "email"}
               /\ sessionStore.user.username = Trim(rfValue["username"])
               /\ sessionStore.user.email = Trim(rfValue["email"])
          ELSE sessionStore = obs.pre
    /\ obs.op # "register" => sessionStore \in InitSessions

\* A registration with the second valid password, a name typed with blanks
\* around it, over the session an earlier registration left.
C16_Witness ==
    /\ obs.op = "register"
    /\ obs.ret = <<TRUE>>
    /\ obs.mode = "ok"
    /\ rfValue["password"] = StrongPassword2
    /\ rfValue["username"] = SpacedBob
    /\ obs.pre.kind = "json"
    /\ sessionStore.user.username = Bob
    /\ location = "welcome.html"

\* =================================================================
\* The session across the registration page and the welcome page
\* =================================================================
\* The user an earlier registration in this tab left in the session.
EarlierUser == [username |-> <<"a", "m", "y">>, email |-> Mail]

\* The registration page opened again in a tab that holds that session.
InitReturning ==
    /\ page = "account"
    /\ clock = 1
    /\ obs = NoObs
    /\ inflight = NoInflight
    /\ BlogPristine
    /\ NavPristine
    /\ location = ""
    /\ localStore = EmptyStore
    /\ sessionStore = SessionText(EarlierUser)
    /\ ContactPristine
    /\ WelcomePristine
    /\ rfValue \in RegisterContents
    /\ rfTerms \in BOOLEAN
    /\ rfMark = [f \in AccountFields |-> "none"]
    /\ rfMsg = [f \in AccountFields |-> ""]
    /\ termsInvalid = FALSE
    /\ strength = updateStrengthBar(rfValue["password"])

InitSession == InitRegister \/ InitReturning \/ InitWelcome

NextSession == NextRegister \/ NextWelcome

SpecSession == InitSession /\ [][NextSession]_vars

\* getCurrentUser finds no user, however the store behaves.
NoCurrentUser ==
    \A mode \in StoreModes : getCurrentUser(mode, sessionStore).user = <<>>

\* C17 as stated: a successful registration always replaces the session and a
\* confirmed logout always removes it.
C17_AlwaysReplacedOrRemoved ==
    /\ (obs.op = "register" /\ obs.ret = <<TRUE>>) =>
          sessionStore = SessionText(userData(rfValue))
    /\ (obs.op = "handleLogout" /\ obs.ret = <<TRUE>>) =>
          sessionStore = NoSession /\ NoCurrentUser

\* C17, amended: the session is the one text under currentUser, so
\* getCurrentUser yields at most one user. A successful registration replaces
\* it when setItem succeeds and leaves the earlier one when setItem throws. A
\* confirmed logout removes it, after which getCurrentUser returns null, and
\* redirects, unless removeItem throws; then, as when the confirmation is
\* declined, the session and the page stay.
C17_SingleSession ==
    /\ \A mode \in StoreModes : Len(getCurrentUser(mode, sessionStore).user) <= 1
    /\ (obs.op = "register" /\ obs.ret = <<TRUE>>) =>
          /\ sessionStore = IF obs.mode = "ok" THEN SessionText(userData(rfValue))
                            ELSE obs.pre
          /\ location = "welcome.html"
    /\ (obs.op = "handleLogout" /\ obs.ret = <<TRUE>> /\ ~obs.threw) =>
          /\ sessionStore = NoSession
          /\ NoCurrentUser
          /\ location = "../index.html"
    /\ (obs.op = "handleLogout" /\ (obs.ret = <<FALSE>> \/ obs.threw)) =>
          /\ sessionStore = obs.pre
          /\ location = ""

\* A confirmed logout removed the session of a registered user.
C17_Witness ==
    /\ obs.op = "handleLogout"
    /\ obs.ret = <<TRUE>>
    /\ obs.pre.kind = "json"
    /\ sessionStore = NoSession
    /\ welcomeUsername = Bob

\* A registration replaced the session an earlier one had left.
C17_OverwriteWitness ==
    /\ obs.op = "register"
    /\ obs.mode = "ok"
    /\ obs.pre.kind = "json"
    /\ obs.pre # sessionStore
    /\ sessionStore.kind = "json"

\* A declined logout.
C17_DeclinedWitness ==
    /\ obs.op = "handleLogout"
    /\ obs.ret = <<FALSE>>
    /\ sessionStore.kind = "json"

\* =================================================================
\* Validity of the registration form
\* =================================================================
\* The four validators all return valid on the form's contents.
FourValidatorsValid ==
    /\ validateUsername(Trim(rfValue["username"])).valid
    /\ validateEmail(Trim(rfValue["email"])).valid
    /\ validatePassword(rfValue["password"]).valid
    /\ validateConfirmPassword(rfValue["password"], rfValue["confirmPassword"]).valid

\* C18: a submit passes validateAll exactly when the four validators return
\* valid and the terms box is checked, and after every submit each of the four
\* fields carries the marker and message of its own validator, whatever the
\* earlier fields did.
C18_ValidateAll ==
    obs.op = "register" =>
       /\ (obs.ret = <<TRUE>>) <=> (FourValidatorsValid /\ rfTerms)
       /\ rfMark["username"] = MarkOf(validateUsername(Trim(rfValue["username"])))
       /\ rfMsg["username"] = validateUsername(Trim(rfValue["username"])).message
       /\ rfMark["email"] = MarkOf(validateEmail(Trim(rfValue["email"])))
       /\ rfMsg["email"] = validateEmail(Trim(rfValue["email"])).message
       /\ rfMark["password"] = MarkOf(validatePassword(rfValue["password"]))
       /\ rfMsg["password"] = validatePassword(rfValue["password"]).message
       /\ rfMark["confirmPassword"] =
             MarkOf(validateConfirmPassword(rfValue["password"],
                                            rfValue["confirmPassword"]))
       /\ rfMsg["confirmPassword"] =
             validateConfirmPassword(rfValue["password"],
                                     rfValue["confirmPassword"]).message
       /\ termsInvalid = ~rfTerms

\* A submit whose first field failed and whose later fields were valid and
\* were marked so.
C18_Witness ==
    /\ obs.op = "register"
    /\ obs.ret = <<FALSE>>
    /\ rfMark["username"] = "invalid"
    /\ rfMark["email"] = "valid"
    /\ rfMark["password"] = "valid"
    /\ rfMark["confirmPassword"] = "valid"

\* A submit on which only the unchecked terms box kept the form invalid.
C18_TermsWitness ==
    /\ obs.op = "register"
    /\ obs.ret = <<FALSE>>
    /\ FourValidatorsValid
    /\ ~rfTerms

\* A submit that passed.
C18_ValidWitness ==
    /\ obs.op = "register"
    /\ obs.ret = <<TRUE>>

\* =================================================================
\* The password field: requirements, validity and strength
\* =================================================================
\* The four character requirements.
CharRequirements == {"uppercase", "lowercase", "number", "special"}

\* A character outside the four classes.
Filler == "~"

\* One character of each class in classes, filled up to length len.
PasswordOf(classes, len) ==
    LET core == (IF "uppercase" \in classes THEN <<"A">> ELSE <<>>)
                \o (IF "lowercase" \in classes THEN <<"a">> ELSE <<>>)
                \o (IF "number" \in classes THEN <<"1">> ELSE <<>>)
                \o (IF "special" \in classes THEN <<"!">> ELSE <<>>)
    IN core \o [i \in 1..(len - Len(core)) |-> Filler]

\* Passwords typed into the field: every combination of the character
\* requirements, just under and exactly at the minimum length.
PasswordInputs ==
    {PasswordOf(classes, len) :
        classes \in SUBSET CharRequirements,
        len \in {MIN_PASSWORD_LENGTH - 1, MIN_PASSWORD_LENGTH}}
    \cup {<<>>, <<"a">>, WeakPassword, StrongPassword, StrongPassword2}

\* handlePasswordInput: the input event of the password field.
handlePasswordInput ==
    /\ page = "account" /\ location = ""
    /\ \E v \in PasswordInputs :
         /\ v # rfValue["password"]
         /\ rfValue' = [rfValue EXCEPT !["password"] = v]
         /\ strength' = updateStrengthBar(v)
         /\ IF Len(rfValue["confirmPassword"]) > 0
            THEN LET result == validateConfirmPassword(v, rfValue["confirmPassword"])
                 IN /\ rfMark' = [rfMark EXCEPT !["confirmPassword"] = MarkOf(result)]
                    /\ rfMsg' = [rfMsg EXCEPT !["confirmPassword"] = result.message]
            ELSE UNCHANGED <<rfMark, rfMsg>>
    /\ obs' = Event("input")
    /\ UNCHANGED <<page, inflight, blogVars, navVars, clock, storeVars, location, rfTerms, termsInvalid,
                   contactVars, welcomeVars>>

NextPassword == handlePasswordInput \/ BlurAccount

SpecPassword == InitAccount /\ [][NextPassword]_vars

\* The requirements the password in the field meets, read off the text.
MetRequirements ==
    LET p == rfValue["password"] IN
    {k \in {"length"} : Len(p) >= 8}
    \cup {k \in {"uppercase"} : \E i \in 1..Len(p) : p[i] \in UpperChars}
    \cup {k \in {"lowercase"} : \E i \in 1..Len(p) : p[i] \in LowerChars}
    \cup {k \in {"number"} : \E i \in 1..Len(p) : p[i] \in DigitChars}
    \cup {k \in {"special"} :
            \E i \in 1..Len(p) : p[i] \in {"!", "@", "#", "$", "%", "^", "&", "*"}}

\* The tier the claim gives to a number of met requirements.
TierOf(n) ==
    IF n <= 2 THEN "weak"
    ELSE IF n = 3 THEN "fair"
    ELSE IF n = 4 THEN "good"
    ELSE "strong"

\* C19: a non-empty password that misses one of the five requirements is
\* invalid with the generic message and its strength tier, weak for at most two
\* met requirements, fair for three and good for four, is below strong; a
\* password that meets all five is valid and strong.
C19_PasswordRequirements ==
    LET p == rfValue["password"]
        n == Cardinality(MetRequirements)
    IN Len(p) > 0 =>
          /\ strength.level = TierOf(n)
          /\ strength.met = MetRequirements
          /\ IF n < 5
             THEN /\ validatePassword(p) =
                        [valid |-> FALSE,
                         message |-> "Password does not meet all requirements below."]
                  /\ strength.level \in {"weak", "fair", "good"}
             ELSE /\ validatePassword(p) = [valid |-> TRUE, message |-> ""]
                  /\ strength.level = "strong"

\* A password of full length that misses only the uppercase letter was left:
\* rated good and marked invalid.
C19_Witness ==
    /\ obs.op = "blur"
    /\ MetRequirements = {"length", "lowercase", "number", "special"}
    /\ strength.level = "good"
    /\ rfMark["password"] = "invalid"
    /\ rfMsg["password"] = "Password does not meet all requirements below."

\* A password with all four character classes, one character short.
C19_ShortWitness ==
    /\ MetRequirements = CharRequirements
    /\ Len(rfValue["password"]) = 7
    /\ rfMark["password"] = "invalid"

\* A password meeting all five requirements was left: strong and marked valid.
C19_StrongWitness ==
    /\ Cardinality(MetRequirements) = 5
    /\ strength.level = "strong"
    /\ rfMark["password"] = "valid"

\* =================================================================
\* Validation of the contact fields
\* =================================================================
NineChars == <<"H", "e", "l", "l", "o", " ", "y", "o", "u">>

TenChars == NineChars \o <<"!">>

\* Contents of the contact form when it is validated: empty, blank, too short,
\* just long enough, malformed and well-formed values, with and without
\* surrounding blanks.
ContactContents ==
    {v \in [ContactFields ->
              {<<>>, <<" ", " ">>, <<"A">>, <<" ", "A", " ">>, <<"A", "l">>,
               <<" ", "A", "l", "\t">>,
               <<"a", "@", "b">>, Mail, <<" ">> \o Mail \o <<" ">>,
               <<"a", " ", "b", "@", "c", ".", "d">>,
               <<"a", "@", "@", "b", ".", "c">>, <<"@", "b", ".", "c">>,
               <<"a", "@", "b", ".">>, <<"a", "@", ".", "c">>,
               [i \in 1..MIN_MESSAGE_LENGTH |-> " "], NineChars,
               <<" ">> \o NineChars \o <<" ">>, TenChars,
               <<"\n">> \o TenChars \o <<" ">>}] :
        /\ v["name"] \in {<<>>, <<" ", " ">>, <<"A">>, <<" ", "A", " ">>,
                          <<"A", "l">>, <<" ", "A", "l", "\t">>}
        /\ v["email"] \in {<<>>, <<" ", " ">>, <<"a", "@", "b">>, Mail,
                           <<" ">> \o Mail \o <<" ">>,
                           <<"a", " ", "b", "@", "c", ".", "d">>,
                           <<"a", "@", "@", "b", ".", "c">>, <<"@", "b", ".", "c">>,
                           <<"a", "@", "b", ".">>, <<"a", "@", ".", "c">>}
        /\ v["subject"] = <<>>
        /\ v["message"] \in {<<>>, [i \in 1..MIN_MESSAGE_LENGTH |-> " "],
                             NineChars, <<" ">> \o NineChars \o <<" ">>,
                             TenChars, <<"\n">> \o TenChars \o <<" ">>}}

\* The contact page with the fields filled in.
InitValidate ==
    /\ page = "contact"
    /\ clock = 1
    /\ obs = NoObs
    /\ inflight = NoInflight
    /\ BlogPristine
    /\ NavPristine
    /\ location = ""
    /\ localStore = EmptyStore
    /\ sessionStore = NoSession
    /\ cfValue \in ContactContents
    /\ cfClass = [f \in ContactFields |-> "none"]
    /\ cfError = [f \in RequiredFields |-> ""]
    /\ feedback = NoFeedback
    /\ submitBtn = SendButton
    /\ latencyTimers = <<>>
    /\ hideTimers = 0
    /\ accepted = 0
    /\ pc = 0
    /\ AccountPristine
    /\ WelcomePristine

NextValidate == BlurField \/ Submit

SpecValidate == InitValidate /\ [][NextValidate]_vars

\* The value of a field with the blanks at both ends removed.
Trimmed(f) ==
    LET raw == cfValue[f]
        inner == {i \in 1..Len(raw) : raw[i] \notin {" ", "\t", "\n"}}
    IN IF inner = {} THEN <<>>
       ELSE SubSeq(raw, CHOOSE i \in inner : \A j \in inner : i <= j,
                        CHOOSE i \in inner : \A j \in inner : i >= j)

\* A well-formed address: no blank, one @ with text before it, and after it a
\* dot with text on both sides.
WellFormed(e) ==
    /\ Cardinality({i \in 1..Len(e) : e[i] = "@"}) = 1
    /\ \A i \in 1..Len(e) : e[i] \notin {" ", "\t", "\n"}
    /\ LET at == CHOOSE i \in 1..Len(e) : e[i] = "@" IN
       /\ at > 1
       /\ \E d \in (at + 2)..(Len(e) - 1) : e[d] = "."

\* The message the claim gives a required field.
ClaimedError(f) ==
    LET t == Trimmed(f) IN
    IF f = "name"
    THEN IF t = <<>> THEN "Full name is required."
         ELSE IF Len(t) < 2 THEN "Name must be at least 2 characters." ELSE ""
    ELSE IF f = "email"
    THEN IF t = <<>> THEN "Email address is required."
         ELSE IF ~WellFormed(t) THEN "Please enter a valid email address." ELSE ""
    ELSE IF t = <<>> THEN "Message is required."
         ELSE IF Len(t) < 10 THEN "Message must be at least 10 characters." ELSE ""

\* Name of at least 2 characters, well-formed email, message of at least 10
\* characters, all after trimming.
ContactInputsValid ==
    /\ Len(Trimmed("name")) >= 2
    /\ WellFormed(Trimmed("email"))
    /\ Len(Trimmed("message")) >= 10

\* C20: a validated contact field carries the message the precedence rules give
\* its trimmed value and the invalid marker exactly when there is a message; a
\* submit validates all three required fields and passes exactly when the
\* inputs are valid, and then no field carries an error message or an invalid
\* marker.
C20_ContactValidation ==
    /\ \A f \in RequiredFields :
          /\ validateField(f, cfValue[f]).error = ClaimedError(f)
          /\ validateField(f, cfValue[f]).ok = (ClaimedError(f) = "")
          /\ cfClass[f] # "none" =>
                /\ cfError[f] = ClaimedError(f)
                /\ cfClass[f] = IF ClaimedError(f) = "" THEN "valid" ELSE "invalid"
    /\ validateForm(cfValue) = ContactInputsValid
    /\ obs.op = "submit" =>
          /\ \A f \in RequiredFields : cfClass[f] # "none"
          /\ (obs.ret = <<TRUE>>) = ContactInputsValid
          /\ ContactInputsValid =>
                /\ \A f \in RequiredFields : cfError[f] = ""
                /\ \A f \in ContactFields : cfClass[f] # "invalid"

\* A submit on which each field failed its second check, one of them only
\* after trimming.
C20_Witness ==
    /\ obs.op = "submit"
    /\ obs.ret = <<FALSE>>
    /\ cfValue["name"] = <<" ", "A", " ">>
    /\ cfError["name"] = "Name must be at least 2 characters."
    /\ cfError["email"] = "Please enter a valid email address."
    /\ cfError["message"] = "Message must be at least 10 characters."

\* A submit on which each field was empty after trimming.
C20_RequiredWitness ==
    /\ obs.op = "submit"
    /\ cfValue["message"] # <<>>
    /\ cfError["name"] = "Full name is required."
    /\ cfError["email"] = "Email address is required."
    /\ cfError["message"] = "Message is required."

\* A submit of valid inputs with blanks around them.
C20_ValidWitness ==
    /\ obs.op = "submit"
    /\ obs.ret = <<TRUE>>
    /\ cfValue["name"] = <<" ", "A", "l", "\t">>
    /\ cfValue["message"] = <<"\n">> \o TenChars \o <<" ">>
    /\ \A f \in RequiredFields : cfClass[f] = "valid"

\* =================================================================
\* The blog section: filter, pagination, read more
\* =================================================================
\* getFilteredArticles that ignores the active category.
getFilteredArticlesAll(articles, category) == articles

\* getFilteredArticles: a copy of the data store for "all", otherwise the
\* articles of exactly that category, in dataset order.
getFilteredArticles(articles, category) ==
    IF category = "all" THEN articles
    ELSE SelectSeq(articles, LAMBDA article : article.category = category)

\* Array.prototype.slice(0, n)
Slice(s, n) == SubSeq(s, 1, IF n < Len(s) THEN n ELSE Len(s))

\* A card that comes out of a render expanded.
buildCardHtmlExpanded(article) ==
    [id |-> article.id, category |-> article.category, expanded |-> TRUE]

\* buildCardHtml: the card of an article, its full text hidden and its button
\* at aria-expanded="false".
buildCardHtml(article) ==
    [id |-> article.id, category |-> article.category, expanded |-> FALSE]

\* The Load More control stays displayed whatever is shown.
LoadMoreAfterRenderAlways(count, total) == TRUE

\* renderArticles, the show/hide of the Load More control after the cards
\* were inserted.
LoadMoreAfterRender(count, total) == ~(count >= total)

\* renderArticles: the grid, the empty-state element and the Load More control
\* after a render.
renderArticles(articles, category, count) ==
    LET filtered == getFilteredArticles(articles, category)
        toShow == Slice(filtered, count)
    IN IF Len(toShow) = 0
       THEN [grid |-> <<>>, emptyHidden |-> FALSE, loadMore |-> FALSE]
       ELSE [grid |-> [i \in 1..Len(toShow) |-> buildCardHtml(toShow[i])],
             emptyHidden |-> TRUE,
             loadMore |-> LoadMoreAfterRender(count, Len(filtered))]

\* The data-category values of the filter buttons: "all", the categories of
\* the data store, and one that no article carries.
FilterCategories ==
    {"all", "brewing-tips", "customer-stories", "coffee-culture", "events"}

\* The Load More button can be clicked while its container is displayed.
LoadMoreAffordance == loadMoreShown

\* A filter click that keeps the pagination reached so far.
VisibleAfterFilterKept(count) == count

\* handleFilterClick: visibleCount = ARTICLES_PER_PAGE
VisibleAfterFilter(count) == ARTICLES_PER_PAGE

\* Load More that reveals nothing further.
VisibleAfterLoadMoreStuck(count) == count

\* Load More that reveals one article.
VisibleAfterLoadMoreOne(count) == count + 1

\* handleLoadMore: visibleCount += ARTICLES_PER_PAGE
VisibleAfterLoadMore(count) == count + ARTICLES_PER_PAGE

\* Read More that flips every card of the grid.
ToggleAllCards(grid, i) ==
    [k \in 1..Len(grid) |-> [grid[k] EXCEPT !.expanded = ~grid[k].expanded]]

\* handleReadMore on the i-th card: its full text and its button flip.
ToggleCard(grid, i) ==
    [grid EXCEPT ![i] = [grid[i] EXCEPT !.expanded = ~grid[i].expanded]]

handleFilterClick ==
    /\ page = "blog"
    /\ \E category \in FilterCategories :
         LET count == VisibleAfterFilter(visibleCount)
             r == renderArticles(ARTICLES, category, count)
         IN /\ filterPressed' = category
            /\ activeCategory' = category
            /\ visibleCount' = count
            /\ blogGrid' = r.grid
            /\ blogEmptyHidden' = r.emptyHidden
            /\ loadMoreShown' = r.loadMore
            /\ obs' = [Event("handleFilterClick") EXCEPT !.id = visibleCount]
    /\ UNCHANGED <<page, inflight, navVars, clock, storeVars, location, ARTICLES,
                   contactVars, accountVars, welcomeVars>>

handleReadMore ==
    /\ page = "blog"
    /\ \E i \in 1..Len(blogGrid) :
         /\ blogGrid' = ToggleCard(blogGrid, i)
         /\ obs' = [Event("handleReadMore") EXCEPT !.id = blogGrid[i].id]
    /\ UNCHANGED <<page, inflight, navVars, clock, storeVars, location, ARTICLES,
                   activeCategory, visibleCount, blogEmptyHidden, loadMoreShown,
                   filterPressed, contactVars, accountVars, welcomeVars>>

handleLoadMore ==
    /\ page = "blog"
    /\ LoadMoreAffordance
    /\ LET count == VisibleAfterLoadMore(visibleCount)
           r == renderArticles(ARTICLES, activeCategory, count)
       IN /\ visibleCount' = count
          /\ blogGrid' = r.grid
          /\ blogEmptyHidden' = r.emptyHidden
          /\ loadMoreShown' = r.loadMore
          /\ obs' = [Event("handleLoadMore") EXCEPT !.id = visibleCount]
    /\ UNCHANGED <<page, inflight, navVars, clock, storeVars, location, ARTICLES,
                   activeCategory, filterPressed, contactVars, accountVars,
                   welcomeVars>>

\* The page after initBlog rendered the initial articles.
InitBlog ==
    /\ page = "blog"
    /\ clock = 1
    /\ obs = NoObs
    /\ inflight = NoInflight
    /\ location = ""
    /\ localStore = EmptyStore
    /\ sessionStore = NoSession
    /\ ContactPristine
    /\ AccountPristine
    /\ WelcomePristine
    /\ NavPristine
    /\ ARTICLES = ArticleData
    /\ activeCategory = "all"
    /\ visibleCount = ARTICLES_PER_PAGE
    /\ filterPressed = "all"
    /\ LET r == renderArticles(ArticleData, "all", ARTICLES_PER_PAGE)
       IN /\ blogGrid = r.grid
          /\ blogEmptyHidden = r.emptyHidden
          /\ loadMoreShown = r.loadMore

NextBlog == handleFilterClick \/ handleReadMore \/ handleLoadMore

SpecBlog == InitBlog /\ [][NextBlog]_vars

\* The articles of the initial data store that match the active filter.
Matching ==
    {k \in 1..Len(ArticleData) :
        activeCategory = "all" \/ ArticleData[k].category = activeCategory}

\* The ids of the first n matching articles, in dataset order.
RECURSIVE FirstMatching(_, _)
FirstMatching(k, n) ==
    IF k > Len(ArticleData) \/ n = 0 THEN <<>>
    ELSE IF k \in Matching
         THEN <<ArticleData[k].id>> \o FirstMatching(k + 1, n - 1)
         ELSE FirstMatching(k + 1, n)

\* The ids of the cards in the grid, in order.
ShownIds == [i \in 1..Len(blogGrid) |-> blogGrid[i].id]

\* C21: the cards shown are the first visibleCount articles, in dataset order,
\* of those matching the active filter, and Load More is offered exactly when
\* visibleCount is less than the number of matching articles: offered at
\* (all, 3), not at (all, 6).
C21_ViewOfState ==
    /\ ShownIds = FirstMatching(1, visibleCount)
    /\ loadMoreShown = (visibleCount < Cardinality(Matching))
    /\ (activeCategory = "all" /\ visibleCount = 3) => loadMoreShown
    /\ (activeCategory = "all" /\ visibleCount = 6) => ~loadMoreShown
    /\ activeCategory # "all" =>
          \A i \in 1..Len(blogGrid) : blogGrid[i].category = activeCategory

\* A category filter shows its two articles, which are not the first two of
\* the data store, and offers no Load More.
C21_Witness ==
    /\ obs.op = "handleFilterClick"
    /\ activeCategory = "coffee-culture"
    /\ ShownIds = <<3, 6>>
    /\ ~loadMoreShown

\* All six articles are shown after Load More.
C21_AllShownWitness ==
    /\ obs.op = "handleLoadMore"
    /\ activeCategory = "all"
    /\ visibleCount = 6
    /\ ShownIds = <<1, 2, 3, 4, 5, 6>>

\* C22: right after a filter click, whichever button was clicked and however
\* many Load More steps came before, visibleCount is the page size.
C22_FilterResetsPagination ==
    obs.op = "handleFilterClick" =>
       /\ visibleCount = 3
       /\ Len(blogGrid) <= 3
       /\ filterPressed = activeCategory

\* The active filter was selected again after Load More had raised
\* visibleCount to 6.
C22_Witness ==
    /\ obs.op = "handleFilterClick"
    /\ obs.id = 6
    /\ activeCategory = "all"
    /\ visibleCount = 3
    /\ Len(blogGrid) = 3

\* C23: Load More raises visibleCount by one page size and leaves the active
\* filter, the pressed filter button and the article data store as they were;
\* no step changes the data store, and visibleCount is always a positive
\* multiple of the page size.
C23_LoadMoreFrame ==
    [][/\ obs'.op = "handleLoadMore" =>
             /\ visibleCount' = visibleCount + 3
             /\ activeCategory' = activeCategory
             /\ filterPressed' = filterPressed
       /\ ARTICLES' = ARTICLES
       /\ ARTICLES' = ArticleData
       /\ visibleCount' > 0
       /\ visibleCount' % 3 = 0]_vars

\* Load More was taken: six articles are visible under the same filter.
C23_Witness ==
    /\ obs.op = "handleLoadMore"
    /\ obs.id = 3
    /\ visibleCount = 6
    /\ activeCategory = "all"
    /\ ARTICLES = ArticleData

\* C28: a Read More click flips the expanded state of the clicked article's
\* card and leaves the filter, visibleCount, the articles shown and every
\* other card's expanded state alone; after a render caused by a filter click
\* or by Load More every card in the grid is collapsed.
C28_ReadMoreFrame ==
    [][/\ obs'.op = "handleReadMore" =>
             /\ activeCategory' = activeCategory
             /\ visibleCount' = visibleCount
             /\ loadMoreShown' = loadMoreShown
             /\ Len(blogGrid') = Len(blogGrid)
             /\ \A i \in 1..Len(blogGrid) :
                   /\ blogGrid'[i].id = blogGrid[i].id
                   /\ blogGrid'[i].expanded =
                         IF blogGrid[i].id = obs'.id THEN ~blogGrid[i].expanded
                         ELSE blogGrid[i].expanded
       /\ obs'.op \in {"handleFilterClick", "handleLoadMore"} =>
             \A i \in 1..Len(blogGrid') : ~blogGrid'[i].expanded]_vars

\* One article is expanded while its neighbours are collapsed.
C28_Witness ==
    /\ obs.op = "handleReadMore"
    /\ obs.id = 2
    /\ Len(blogGrid) = 3
    /\ blogGrid[2].expanded
    /\ ~blogGrid[1].expanded
    /\ ~blogGrid[3].expanded

\* An article was collapsed again by a second click while another stayed
\* expanded.
C28_CollapseWitness ==
    /\ obs.op = "handleReadMore"
    /\ obs.id = 1
    /\ ~blogGrid[1].expanded
    /\ blogGrid[2].expanded

\* -----------------------------------------------------------------
\* Load More is clicked again and again while it is offered.
SpecBlogLive == InitBlog /\ [][NextBlog]_vars /\ WF_vars(handleLoadMore)

\* Every article matching the active filter is in the grid.
AllMatchingShown ==
    /\ Len(blogGrid) = Cardinality(Matching)
    /\ \A k \in Matching : \E i \in 1..Len(blogGrid) : blogGrid[i].id = ArticleData[k].id

\* Load More steps taken since the filter was selected.
LoadMoreSteps == (visibleCount \div 3) - 1

\* Load More steps after which all matching articles are shown.
StepsNeeded == ((Cardinality(Matching) + 2) \div 3) - 1

\* C29: while Load More is offered fewer than ceil(matching / 3) - 1 steps
\* were taken and clicking it on leads to a state where it is no longer
\* offered; when it is not offered and the filter matches something, all
\* matching articles are shown after exactly that many steps; when the filter
\* matches nothing, the empty-state message is shown and Load More is not
\* offered.
C29_LoadMoreTerminates ==
    /\ [](loadMoreShown => LoadMoreSteps < StepsNeeded)
    /\ []((~loadMoreShown /\ Matching # {}) =>
             /\ AllMatchingShown
             /\ blogEmptyHidden
             /\ LoadMoreSteps = StepsNeeded)
    /\ [](Matching = {} =>
             /\ ~blogEmptyHidden
             /\ ~loadMoreShown
             /\ blogGrid = <<>>)
    /\ (loadMoreShown ~> (~loadMoreShown /\ AllMatchingShown))

\* Load More was clicked until it went away: one step for the six articles.
C29_Witness ==
    /\ obs.op = "handleLoadMore"
    /\ ~loadMoreShown
    /\ AllMatchingShown
    /\ LoadMoreSteps = 1
    /\ Cardinality(Matching) = 6

\* A filter that matches no article shows the empty state.
C29_EmptyWitness ==
    /\ obs.op = "handleFilterClick"
    /\ Matching = {}
    /\ ~blogEmptyHidden
    /\ ~loadMoreShown

\* =================================================================
\* The 8 s timer and the banners of later submits
\* =================================================================
\* C24: when an 8 s timer fires, the banner it clears is the success banner of
\* the submission that scheduled it: not an error banner, which only a later
\* submit can have shown, and not the success banner of a later submission,
\* whose own timer is then still pending behind the one that fires.
C24_TimerClearsOwnBanner ==
    [][(obs'.op = "hide" /\ hideTimers' = hideTimers - 1) =>
          /\ feedback.type # "error"
          /\ ~(feedback.type = "success" /\ hideTimers >= 2)]_vars

\* =================================================================
\* Edits during the latency window
\* =================================================================
\* C25: the record waiting for the 800 ms timer is built from the fields at
\* the submit event and no later step changes it, whatever is typed meanwhile;
\* the callback persists exactly that record, and its reset empties the
\* fields, edits included.
C25_SnapshotAtSubmit ==
    [][/\ Len(latencyTimers') > Len(latencyTimers) =>
             /\ latencyTimers' = Append(latencyTimers, FormData(cfValue, clock))
             /\ cfValue' = cfValue
       /\ Len(latencyTimers') = Len(latencyTimers) => latencyTimers' = latencyTimers
       /\ (Len(latencyTimers') < Len(latencyTimers) /\ location' = "") =>
             latencyTimers' = Tail(latencyTimers)
       /\ Inqs' # Inqs => Inqs' = Append(Inqs, Head(latencyTimers))
       /\ obs'.op = "resetForm" => cfValue' = PristineValues]_vars

\* The callback has persisted the record of the submit event while the fields
\* still hold what was typed after it.
C25_Witness ==
    /\ pc # 0
    /\ obs.op = "saveSubmission"
    /\ obs.wrote /\ ~obs.writeThrew
    /\ Len(Inqs) = 1
    /\ Inqs[1].name = <<"A", "l">>
    /\ Trim(cfValue["name"]) = <<"A">>
    /\ Inqs[1].email # Trim(cfValue["email"])

\* The reset has discarded the edits after a record was persisted.
C25_ResetWitness ==
    /\ obs.op = "resetForm"
    /\ Len(Inqs) = 1
    /\ cfValue = PristineValues

\* =================================================================
\* Stored JSON that is not an array
\* =================================================================
\* C26: loadFavorites and loadSubmissions return an array whatever text is
\* stored under their key, and no add, update, delete, find or save that
\* follows throws.
C26_LoadersReturnArrays ==
    /\ obs.op \in {"loadFavorites", "loadSubmissions"} =>
          /\ ~obs.threw
          /\ obs.ret[1].t = "array"
    /\ obs.op \in {"add", "update", "delete", "find", "saveSubmission"} =>
          ~obs.threw

\* =================================================================
\* Success toasts of the favorites dashboard
\* =================================================================
\* C27: the "updated successfully" toast follows only an updateFavorite that
\* returned true, and the "added to your favorites" toast is shown only when
\* the new record is in the persisted collection afterwards.
C27_SuccessToastMeansEffect ==
    /\ (obs.op = "handleUpdate" /\ toast.type = "success"
           /\ toast.text = "updated successfully!") =>
          obs.ret = <<TRUE>>
    /\ (obs.op = "handleAdd" /\ toast.type = "success"
           /\ toast.text = "added to your favorites!") =>
          /\ obs.ret # <<>>
          /\ \E i \in 1..Len(Favs) : Favs[i] = obs.ret[1]

\* =================================================================
\* Mobile navigation (script.js)
\* =================================================================
\* The navigation state the listeners read and write.
NavState ==
    [aria |-> ariaExpanded, hamburger |-> hamburgerActive, menu |-> navMenuActive,
     overlay |-> overlayActive, spans |-> spansCrossed]

\* toggleMobileMenu(forceClose): aria-expanded and the three active classes
\* are set to shouldOpen.
toggleMobileMenu(forceClose, st) ==
    LET isCurrentlyOpen == st.aria
        shouldOpen == IF forceClose THEN FALSE ELSE ~isCurrentlyOpen
    IN [st EXCEPT !.aria = shouldOpen, !.hamburger = shouldOpen,
                  !.menu = shouldOpen, !.overlay = shouldOpen]

\* closeMobileMenu
closeMobileMenu(st) == toggleMobileMenu(TRUE, st)

\* The top-level hamburger listener: navMenu.classList.toggle('active') and
\* the bars drawn to match.
PlainToggle(st) == [st EXCEPT !.menu = ~st.menu, !.spans = ~st.menu]

\* The top-level nav-link listener: navMenu.classList.remove('active').
PlainRemove(st) == [st EXCEPT !.menu = FALSE, !.spans = FALSE]

\* The listeners of one event run in the order they were attached.
SetNav(st) ==
    /\ ariaExpanded' = st.aria
    /\ hamburgerActive' = st.hamburger
    /\ navMenuActive' = st.menu
    /\ overlayActive' = st.overlay
    /\ spansCrossed' = st.spans

HamburgerClick ==
    /\ page = "blog"
    /\ SetNav(IF initFirst
              THEN PlainToggle(toggleMobileMenu(FALSE, NavState))
              ELSE toggleMobileMenu(FALSE, PlainToggle(NavState)))
    /\ obs' = Event("hamburgerClick")
    /\ UNCHANGED <<page, inflight, blogVars, initFirst, clock, storeVars, location,
                   contactVars, accountVars, welcomeVars>>

NavLinkClick ==
    /\ page = "blog"
    /\ SetNav(IF initFirst
              THEN PlainRemove(closeMobileMenu(NavState))
              ELSE closeMobileMenu(PlainRemove(NavState)))
    /\ obs' = Event("navLinkClick")
    /\ UNCHANGED <<page, inflight, blogVars, initFirst, clock, storeVars, location,
                   contactVars, accountVars, welcomeVars>>

OverlayClick ==
    /\ page = "blog"
    /\ SetNav(closeMobileMenu(NavState))
    /\ obs' = Event("overlayClick")
    /\ UNCHANGED <<page, inflight, blogVars, initFirst, clock, storeVars, location,
                   contactVars, accountVars, welcomeVars>>

EscapeKey ==
    /\ page = "blog"
    /\ SetNav(IF ariaExpanded THEN closeMobileMenu(NavState) ELSE NavState)
    /\ obs' = Event("escapeKey")
    /\ UNCHANGED <<page, inflight, blogVars, initFirst, clock, storeVars, location,
                   contactVars, accountVars, welcomeVars>>

\* index.html with the blog rendered and the menu closed. init() attaches its
\* listeners when the script runs if the document is already parsed, and at
\* DOMContentLoaded, after the top-level code, if it is still loading.
InitNav ==
    /\ page = "blog"
    /\ clock = 1
    /\ obs = NoObs
    /\ inflight = NoInflight
    /\ location = ""
    /\ localStore = EmptyStore
    /\ sessionStore = NoSession
    /\ ContactPristine
    /\ AccountPristine
    /\ WelcomePristine
    /\ initFirst \in BOOLEAN
    /\ ariaExpanded = FALSE
    /\ hamburgerActive = FALSE
    /\ navMenuActive = FALSE
    /\ overlayActive = FALSE
    /\ spansCrossed = FALSE
    /\ ARTICLES = ArticleData
    /\ activeCategory = "all"
    /\ visibleCount = ARTICLES_PER_PAGE
    /\ filterPressed = "all"
    /\ LET r == renderArticles(ArticleData, "all", ARTICLES_PER_PAGE)
       IN /\ blogGrid = r.grid
          /\ blogEmptyHidden = r.emptyHidden
          /\ loadMoreShown = r.loadMore

NextNav ==
    \/ HamburgerClick
    \/ NavLinkClick
    \/ OverlayClick
    \/ EscapeKey
    \/ handleFilterClick
    \/ handleLoadMore

SpecNav == InitNav /\ [][NextNav]_vars

\* C30: the nav menu carries the class active exactly when the hamburger's
\* aria-expanded is "true".
C30_MenuMatchesAria == navMenuActive = ariaExpanded

\* The same, when the top-level listener was attached first.
C30_MatchesWhenPlainFirst == ~initFirst => (navMenuActive = ariaExpanded)

====
